---- MODULE Spec2Model ----
(***************************************************************************)
(* Model of the book's build tools: the real-time compilation monitor      *)
(* (utils/compile_realtime.py), the flattener (utils/flatten_book.py), the *)
(* subset generator (utils/generate_chapter_subset.py) and the page        *)
(* structure reporter (utils/generate_page_table.py).  Each tool has its   *)
(* own variables and its own specification; a tool's variables stay at     *)
(* their idle values in the specifications of the others.                  *)
(* Text is a sequence of one-character strings, so that substring tests,   *)
(* line splitting and the regular expressions of the tools are computed    *)
(* as the code computes them.                                              *)
(***************************************************************************)
EXTENDS Integers, Sequences, FiniteSets, TLC

\* ------------------------------------------------------------------ bounds
\* chapter numbers the compiler may mention in a log line: 1..MaxChapter
MaxChapter == 2
\* lines the compiler prints during one run (its two passes together)
MaxLines == 2
\* bytes the compiler's output buffer hands to the log file in one block
BlockSize == 9
\* files of the directory tree the cleaning step is applied to
MaxFiles == 2
\* depth of the directories of that tree
MaxDepth == 2
\* lines of the root document given to the flattener
MaxRootLines == 2
\* characters of the chapter specification given to the subset generator
MaxSpecLen == 5
\* pages of the document given to the page structure reporter
MaxPages == 2

\* ------------------------------------------------------------------ text
NL == "\n"

Whitespace == {" ", NL, "\t"}

Digits == {"0", "1", "2", "3", "4", "5", "6", "7", "8", "9"}

DigitVal(c) ==
    CASE c = "0" -> 0 [] c = "1" -> 1 [] c = "2" -> 2 [] c = "3" -> 3
      [] c = "4" -> 4 [] c = "5" -> 5 [] c = "6" -> 6 [] c = "7" -> 7
      [] c = "8" -> 8 [] c = "9" -> 9

DigitChar(n) ==
    CASE n = 0 -> "0" [] n = 1 -> "1" [] n = 2 -> "2" [] n = 3 -> "3"
      [] n = 4 -> "4" [] n = 5 -> "5" [] n = 6 -> "6" [] n = 7 -> "7"
      [] n = 8 -> "8" [] n = 9 -> "9"

\* s[i..j] as a sequence (empty when i > j)
Slice(s, i, j) == IF i > j THEN <<>> ELSE SubSeq(s, i, j)

\* pat occurs in s starting at position i
MatchAt(s, pat, i) ==
    /\ i >= 1
    /\ i + Len(pat) - 1 <= Len(s)
    /\ \A k \in 1..Len(pat) : s[i + k - 1] = pat[k]

\* Python's `pat in s`
Contains(s, pat) == \E i \in 1..(Len(s) + 1) : MatchAt(s, pat, i)

\* Python's s.endswith(suf)
EndsWith(s, suf) == Len(suf) <= Len(s) /\ MatchAt(s, suf, Len(s) - Len(suf) + 1)

\* Python's s.strip()
Strip(s) ==
    LET keep == {i \in 1..Len(s) : s[i] \notin Whitespace}
    IN IF keep = {} THEN <<>>
       ELSE LET lo == CHOOSE i \in keep : \A j \in keep : i <= j
                hi == CHOOSE i \in keep : \A j \in keep : j <= i
            IN SubSeq(s, lo, hi)

\* Python's f.readlines() on the text s: every piece ends with its newline,
\* except a last piece that the text does not terminate
RECURSIVE ReadLines(_)
ReadLines(s) ==
    IF s = <<>> THEN <<>>
    ELSE LET nls == {i \in 1..Len(s) : s[i] = NL}
         IN IF nls = {} THEN <<s>>
            ELSE LET n == CHOOSE i \in nls : \A j \in nls : i <= j
                 IN <<SubSeq(s, 1, n)>> \o ReadLines(Slice(s, n + 1, Len(s)))

\* int() of a string of decimal digits
RECURSIVE ParseInt(_)
ParseInt(ds) ==
    IF ds = <<>> THEN 0
    ELSE 10 * ParseInt(SubSeq(ds, 1, Len(ds) - 1)) + DigitVal(ds[Len(ds)])

\* ------------------------------------------------------------------ literals
\* "/"
T_slash == <<"/">>
\* "title.tex", "summary.tex", "main.tex": the fragment names of extract_chapter_info
T_title_tex == <<"t", "i", "t", "l", "e", ".", "t", "e", "x">>
T_summary_tex == <<"s", "u", "m", "m", "a", "r", "y", ".", "t", "e", "x">>
T_main_tex == <<"m", "a", "i", "n", ".", "t", "e", "x">>
\* "Output written on": the completion marker
T_marker == <<"O", "u", "t", "p", "u", "t", " ", "w", "r", "i", "t", "t", "e", "n", " ", "o", "n">>
\* ".git"
T_git == <<".", "g", "i", "t">>
\* ".pdf" and "main."
T_dot_pdf == <<".", "p", "d", "f">>
T_main_dot == <<"m", "a", "i", "n", ".">>
\* "."
T_dot == <<".">>

\* the 17 build-artifact extensions of clean_build_artifacts
latex_extensions ==
    { <<"a", "u", "x">>, <<"t", "o", "c">>, <<"l", "o", "g">>, <<"o", "u", "t">>,
      <<"f", "d", "b", "_", "l", "a", "t", "e", "x", "m", "k">>,
      <<"f", "l", "s">>, <<"s", "y", "n", "c", "t", "e", "x", ".", "g", "z">>,
      <<"b", "b", "l">>, <<"b", "l", "g">>, <<"i", "d", "x">>, <<"i", "n", "d">>, <<"i", "l", "g">>,
      <<"l", "o", "f">>, <<"l", "o", "t">>, <<"n", "a", "v">>, <<"s", "n", "m">>, <<"v", "r", "b">> }

\* ------------------------------------------------------------------ extract_chapter_info
\* the end of the longest run of digits of s that starts at i
DigitRunEnd(s, i) ==
    CHOOSE j \in i..Len(s) :
        /\ \A k \in i..j : s[k] \in Digits
        /\ (j = Len(s) \/ s[j + 1] \notin Digits)

\* re.search(r'(\d+)_([^/]+)/', s) matches with the group (\d+) starting at i
ChapterMatchAt(s, i) ==
    /\ s[i] \in Digits
    /\ LET j == DigitRunEnd(s, i)
       IN /\ j + 2 <= Len(s)
          /\ s[j + 1] = "_"
          /\ s[j + 2] # "/"
          /\ \E k \in (j + 3)..Len(s) : s[k] = "/"

\* the chapter number extract_chapter_info returns for a log line; 0 stands for
\* None (the caller treats None and 0 alike: `if chapter_num and chapter_name`)
extract_chapter_info(line) ==
    IF /\ Contains(line, T_slash)
       /\ \/ Contains(line, T_title_tex)
          \/ Contains(line, T_summary_tex)
          \/ Contains(line, T_main_tex)
    THEN LET starts == {i \in 1..Len(line) : ChapterMatchAt(line, i)}
         IN IF starts = {} THEN 0
            ELSE LET i == CHOOSE a \in starts : \A b \in starts : a <= b
                 IN ParseInt(SubSeq(line, i, DigitRunEnd(line, i)))
    ELSE 0

\* "Output written on" in line
HasMarker(line) == Contains(line, T_marker)

\* ------------------------------------------------------------------ files
\* a file is [dir |-> the names of its directories below the working directory,
\*            name |-> its file name]
File(d, n) == [dir |-> d, name |-> n]

\* the root string os.walk('.') reports for a directory: ".", "./a", "./a/b"
RECURSIVE RootStr(_)
RootStr(d) ==
    IF d = <<>> THEN T_dot
    ELSE RootStr(SubSeq(d, 1, Len(d) - 1)) \o T_slash \o d[Len(d)]

N_main_pdf == <<"m", "a", "i", "n", ".", "p", "d", "f">>
N_main_aux == <<"m", "a", "i", "n", ".", "a", "u", "x">>
N_main_log == <<"m", "a", "i", "n", ".", "l", "o", "g">>
N_main == <<"m", "a", "i", "n">>
N_pass1_log == <<"c", "o", "m", "p", "i", "l", "e", "_", "p", "a", "s", "s", "1", ".", "l", "o", "g">>
N_pass2_log == <<"c", "o", "m", "p", "i", "l", "e", "_", "p", "a", "s", "s", "2", ".", "l", "o", "g">>

\* f'{self.base_name}.pdf' for the document [dir, stem]
PdfFile(tex) == File(tex.dir, tex.stem \o T_dot_pdf)

\* 'compile_pass1.log' / 'compile_pass2.log', in the working directory
LogFile(p) == File(<<>>, IF p = 1 THEN N_pass1_log ELSE N_pass2_log)

\* ------------------------------------------------------------------ clean_build_artifacts
\* first loop: os.remove(f'{self.base_name}.{ext}') for every extension
clean_document_artifacts(files, tex) ==
    files \ {File(tex.dir, tex.stem \o T_dot \o ext) : ext \in latex_extensions}

\* second loop: the two pass logs, in the working directory
clean_compilation_logs(files) == files \ {LogFile(1), LogFile(2)}

\* the walk ignores the .git test: every directory is cleaned
walk_removes_nogit(f) ==
    /\ \E ext \in latex_extensions : EndsWith(f.name, T_dot \o ext)
    /\ (~EndsWith(f.name, T_dot_pdf) \/ MatchAt(f.name, T_main_dot, 1))

\* third loop: os.walk('.') removes the file f of the directory `root` unless
\* '.git' occurs in root
walk_removes(f) ==
    /\ ~Contains(RootStr(f.dir), T_git)
    /\ \E ext \in latex_extensions : EndsWith(f.name, T_dot \o ext)
    /\ (~EndsWith(f.name, T_dot_pdf) \/ MatchAt(f.name, T_main_dot, 1))

clean_subdirectories(files) == {f \in files : ~walk_removes(f)}

\* ------------------------------------------------------------------ state
Passes == {1, 2}

VARIABLES
    \* --- the environment
    fs,              \* the files that exist
    fs0,             \* the files that existed when the program started
    tex_file,        \* the document: [dir, stem] of <stem>.tex
    tex_exists,      \* os.path.exists(args.tex_file): "unread" until main() tests it
    scale,           \* args.scale: "unread" until main() tests it
    log,             \* log[p]: the content of pass p's log file
    buf,             \* buf[p]: output of pass p's compiler not yet in the file
    nlines,          \* lines the compiler has printed so far in this run
    proc,            \* proc[p]: "none", "running", "exited"
    \* --- RealTimeCompiler
    current_chapter, \* self.current_chapter
    phase,           \* self.phase
    monitoring,      \* self.monitoring
    pdf_generated,   \* self.pdf_generated
    \* --- the main flow: main(), compile_document(), compile_pass()
    pc,              \* where the main flow is
    pass_num,        \* the pass compile_pass is running (0 before the first)
    return_code,     \* compile_pass's return_code (-1 before the compiler exits)
    success,         \* success[p]: "none", or compile_pass(p)'s result, "ok" or "failed"
    exit_status,     \* the status main() exits with (-1 while running)
    table_tool,      \* the page-table generator: "none" or how its invocation ended
    scale_tool,      \* the page-rescaling tool: "none" or how its invocation ended
    cleaned,         \* completed runs of clean_build_artifacts
    \* --- the polling task of pass p: monitor_log_file
    mpc,             \* mpc[p]: where the task is
    last_pos,        \* last_pos[p]
    new_lines,       \* new_lines[p]: lines read by the last poll and not yet handled
    chapter_read,    \* chapter_read[p]: self.current_chapter as read for max()
    \* --- history
    marker_seen,     \* a polling task handled a marker line since the pass's reset
    judged,          \* what held when compile_pass judged the pass it is returning from
    launched_at      \* launched_at[p]: what held when pass p's compiler was launched

\* the flattener: utils/flatten_book.py
VARIABLES
    main_tex,        \* the text of the root document
    frag,            \* frag[d][n]: fragment file n of chapter directory d
    root_files,      \* root_files[n]: the front-matter file <n>.tex beside the root document
    header_lines,    \* generate_flattened's header_lines
    chapters,        \* generate_flattened's chapters
    output,          \* generate_flattened's output
    todo,            \* the chapters the loop of generate_flattened has yet to take
    written,         \* what each finished run wrote to the output file
    fpc              \* where generate_flattened is

\* the subset generator: utils/generate_chapter_subset.py
VARIABLES
    chapter_spec,    \* the chapter specification given to parse_chapter_spec
    parts,           \* the parts of the specification its loop has yet to take
    selected,        \* parse_chapter_spec's selected
    chapter_numbers, \* what parse_chapter_spec returned
    spc              \* where parse_chapter_spec is

\* the page structure reporter: utils/generate_page_table.py
VARIABLES
    toc_data,        \* generate_page_table's toc_data: page -> entry
    log_data,        \* its log_data: page -> entry
    aux_data,        \* its aux_data: page -> entry
    pdf_pages,       \* what get_pdf_page_count returns (0 for None)
    total_pages,     \* its total_pages
    track,           \* its current_chapter, current_chapter_name, current_section,
                     \* chapter_start_page and section_start_page
    page_table,      \* its page_table
    tpc              \* where generate_page_table is

\* the handling of one log line in monitor_log_file, taken alone
VARIABLES
    raw_line,        \* a line as readlines() returns it
    mystery_strings, \* monitor_log_file's mystery_strings
    error_lines,     \* the lines printed as "Error detected"
    lpc              \* where the handling of the line is

\* the subset generator's reading of the root document: parse_main_tex
VARIABLES
    extractor_chapters, \* self.chapters of the ChapterExtractor
    xpc                 \* where parse_main_tex is

\* the page structure reporter's reading of the log: analyze_log_file
VARIABLES
    log_text         \* the lines of the log file

flattenVars == <<main_tex, frag, root_files, header_lines, chapters, output, todo,
                 written, fpc>>
subsetVars == <<chapter_spec, parts, selected, chapter_numbers, spc>>
tableVars == <<toc_data, log_data, aux_data, pdf_pages, total_pages, track, page_table, tpc>>
lineVars == <<raw_line, mystery_strings, error_lines, lpc>>
extractorVars == <<extractor_chapters, xpc>>
logVars == <<log_text>>
readerVars == <<lineVars, extractorVars, logVars>>
toolVars == <<flattenVars, subsetVars, tableVars, readerVars>>

vars == <<fs, fs0, tex_file, tex_exists, scale, log, buf, nlines, proc,
          current_chapter, phase, monitoring, pdf_generated,
          pc, pass_num, return_code, success, exit_status, table_tool, scale_tool,
          cleaned, mpc, last_pos, new_lines, chapter_read,
          marker_seen, judged, launched_at, toolVars>>

envVars == <<log, buf, nlines, proc>>
selfVars == <<current_chapter, phase, monitoring, pdf_generated>>
mainVars == <<pass_num, return_code, success, exit_status, table_tool, scale_tool>>
taskVars == <<mpc, last_pos, new_lines, chapter_read>>
inputVars == <<fs0, tex_file, tex_exists, scale>>
histVars == <<marker_seen, judged, launched_at>>
\* the variables of the compilation monitor
compileVars == <<fs, pc, cleaned, envVars, selfVars, mainVars, taskVars, inputVars, histVars>>
\* the variables that the flattener leaves alone
notFlatten == <<compileVars, subsetVars, tableVars, readerVars>>
\* the variables that the subset generator leaves alone
notSubset == <<compileVars, flattenVars, tableVars, readerVars>>
\* the variables that the page structure reporter leaves alone
notTable == <<compileVars, flattenVars, subsetVars, readerVars>>

\* main.tex in the working directory
MainTex == [dir |-> <<>>, stem |-> N_main]

\* the state after RealTimeCompiler.__init__, for a given tree and document
InitWith(files, tex) ==
    /\ fs = files
    /\ fs0 = files
    /\ tex_file = tex
    /\ tex_exists = "unread"
    /\ scale = "unread"
    /\ log = [p \in Passes |-> <<>>]
    /\ buf = [p \in Passes |-> <<>>]
    /\ nlines = 0
    /\ proc = [p \in Passes |-> "none"]
    /\ current_chapter = 0
    /\ phase = "Initializing"
    /\ monitoring = TRUE
    /\ pdf_generated = FALSE
    /\ pass_num = 0
    /\ return_code = -1
    /\ success = [p \in Passes |-> "none"]
    /\ exit_status = -1
    /\ table_tool = "none"
    /\ scale_tool = "none"
    /\ cleaned = 0
    /\ mpc = [p \in Passes |-> "idle"]
    /\ last_pos = [p \in Passes |-> 0]
    /\ new_lines = [p \in Passes |-> <<>>]
    /\ chapter_read = [p \in Passes |-> 0]
    /\ marker_seen = FALSE
    /\ judged = [marker |-> FALSE, pdf |-> FALSE]
    /\ launched_at = [p \in Passes |-> -1]

\* a checkout with the auxiliary file and the first log of an earlier build
\* (its PDF removed), and a file of the repository's metadata named like a log
N_HEAD == <<"H", "E", "A", "D">>
N_index_log == <<"i", "n", "d", "e", "x", ".", "l", "o", "g">>
StartTree ==
    {File(<<T_git>>, N_HEAD), File(<<T_git>>, N_index_log),
     File(<<>>, N_main_aux), File(<<>>, N_pass1_log)}

\* the flattener is not running
FlattenIdle ==
    /\ main_tex = <<>>
    /\ frag = <<>>
    /\ root_files = <<>>
    /\ header_lines = <<>>
    /\ chapters = <<>>
    /\ output = <<>>
    /\ todo = <<>>
    /\ written = <<>>
    /\ fpc = "idle"

\* the subset generator is not running
SubsetIdle ==
    /\ chapter_spec = <<>>
    /\ parts = <<>>
    /\ selected = <<>>
    /\ chapter_numbers = <<>>
    /\ spc = "idle"

\* the page structure reporter is not running
TableIdle ==
    /\ toc_data = <<>>
    /\ log_data = <<>>
    /\ aux_data = <<>>
    /\ pdf_pages = 0
    /\ total_pages = 0
    /\ track = <<>>
    /\ page_table = <<>>
    /\ tpc = "idle"

\* no log line is handled alone
LineIdle ==
    /\ raw_line = <<>>
    /\ mystery_strings = <<>>
    /\ error_lines = <<>>
    /\ lpc = "idle"

\* the subset generator is not reading the root document
ExtractorIdle ==
    /\ extractor_chapters = <<>>
    /\ xpc = "idle"

\* the page structure reporter is given its log data, not a log file
LogIdle == log_text = <<>>

ReadersIdle == LineIdle /\ ExtractorIdle /\ LogIdle

ToolsIdle == FlattenIdle /\ SubsetIdle /\ TableIdle /\ ReadersIdle

Init ==
    /\ InitWith(StartTree, MainTex)
    /\ pc = "start"
    /\ ToolsIdle

\* ------------------------------------------------------------------ main(), cleaning
\* main(): a missing source file ends the run with status 1
CheckSource ==
    /\ pc = "start"
    /\ \E found \in BOOLEAN :
          /\ tex_exists' = found
          /\ IF found
             THEN pc' = "clean_document" /\ UNCHANGED exit_status
             ELSE pc' = "done" /\ exit_status' = 1
    /\ UNCHANGED <<toolVars, fs, fs0, tex_file, scale, envVars, selfVars, pass_num, return_code,
                   success, table_tool, scale_tool, cleaned, taskVars, histVars>>

CleanDocument ==
    /\ pc = "clean_document"
    /\ fs' = clean_document_artifacts(fs, tex_file)
    /\ pc' = "clean_logs"
    /\ UNCHANGED <<toolVars, envVars, selfVars, mainVars, cleaned, taskVars, inputVars, histVars>>

CleanLogs ==
    /\ pc = "clean_logs"
    /\ fs' = clean_compilation_logs(fs)
    /\ pc' = "clean_walk"
    /\ UNCHANGED <<toolVars, envVars, selfVars, mainVars, cleaned, taskVars, inputVars, histVars>>

\* compile_document goes on to compile_pass(1) without the walk, the cleaning
\* left unfinished
CleanWalk_skipped ==
    /\ pc = "clean_walk"
    /\ pass_num' = 1
    /\ pc' = "begin_pass"
    /\ UNCHANGED <<toolVars, fs, envVars, selfVars, return_code, success, exit_status,
                   table_tool, scale_tool, cleaned, taskVars, inputVars, histVars>>

\* the end of clean_build_artifacts; compile_document goes on to compile_pass(1)
CleanWalk ==
    /\ pc = "clean_walk"
    /\ fs' = clean_subdirectories(fs)
    /\ cleaned' = cleaned + 1
    /\ pass_num' = 1
    /\ pc' = "begin_pass"
    /\ UNCHANGED <<toolVars, envVars, selfVars, return_code, success, exit_status, table_tool,
                   scale_tool, taskVars, inputVars, histVars>>

\* ------------------------------------------------------------------ compile_pass
\* self.current_chapter = 0; self.monitoring = True; self.pdf_generated = False;
\* log_thread.start(): the pass's polling task begins with last_pos = 0
BeginPass ==
    /\ pc = "begin_pass"
    /\ current_chapter' = 0
    /\ monitoring' = TRUE
    /\ pdf_generated' = FALSE
    /\ marker_seen' = FALSE
    /\ mpc' = [mpc EXCEPT ![pass_num] = "poll"]
    /\ last_pos' = [last_pos EXCEPT ![pass_num] = 0]
    /\ pc' = "launch"
    /\ UNCHANGED <<toolVars, fs, envVars, phase, mainVars, cleaned, new_lines, chapter_read,
                   inputVars, judged, launched_at>>

\* the launch also sets self.phase = "Running"
Launch_running ==
    /\ pc = "launch"
    /\ fs' = fs \cup {LogFile(pass_num)}
    /\ log' = [log EXCEPT ![pass_num] = <<>>]
    /\ proc' = [proc EXCEPT ![pass_num] = "running"]
    /\ launched_at' = [launched_at EXCEPT ![pass_num] = cleaned]
    /\ phase' = "Running"
    /\ pc' = "wait"
    /\ UNCHANGED <<toolVars, buf, nlines, current_chapter, monitoring, pdf_generated, mainVars,
                   cleaned, taskVars, inputVars, marker_seen, judged>>

\* subprocess.Popen(cmd, stdout=open(log_file, 'w'), ...): the log file is
\* created empty and the compiler runs
Launch ==
    /\ pc = "launch"
    /\ fs' = fs \cup {LogFile(pass_num)}
    /\ log' = [log EXCEPT ![pass_num] = <<>>]
    /\ proc' = [proc EXCEPT ![pass_num] = "running"]
    /\ launched_at' = [launched_at EXCEPT ![pass_num] = cleaned]
    /\ pc' = "wait"
    /\ UNCHANGED <<toolVars, buf, nlines, selfVars, mainVars, cleaned, taskVars, inputVars,
                   marker_seen, judged>>

\* return_code = self.process.wait(); self.monitoring = False
Wait ==
    /\ pc = "wait"
    /\ proc[pass_num] = "exited"
    /\ monitoring' = FALSE
    /\ pc' = "judge"
    /\ UNCHANGED <<toolVars, fs, envVars, current_chapter, phase, pdf_generated, mainVars,
                   cleaned, taskVars, inputVars, histVars>>

\* the pass succeeds only if the compiler also exited with status 0
pass_success_exit_code(generated, pdf_exists, code) ==
    (generated \/ pdf_exists) /\ code = 0

\* success = self.pdf_generated or os.path.exists(f'{self.base_name}.pdf')
pass_success(generated, pdf_exists, code) == generated \/ pdf_exists

Judge ==
    /\ pc = "judge"
    /\ success' = [success EXCEPT ![pass_num] =
           IF pass_success(pdf_generated, PdfFile(tex_file) \in fs, return_code)
           THEN "ok" ELSE "failed"]
    /\ judged' = [marker |-> marker_seen, pdf |-> PdfFile(tex_file) \in fs]
    /\ pc' = "after_pass"
    /\ UNCHANGED <<toolVars, fs, envVars, selfVars, pass_num, return_code, exit_status,
                   table_tool, scale_tool, cleaned, taskVars, inputVars,
                   marker_seen, launched_at>>

\* ------------------------------------------------------------------ compile_document
\* pass 1 is followed by pass 2 whatever pass 1's result
next_after_pass_always(p, ok) == IF p = 1 THEN "pass2" ELSE "table"

\* `if not success1: return False`, else the second pass; after it the page table
next_after_pass(p, ok) ==
    IF p = 1 THEN (IF ok THEN "pass2" ELSE "abort") ELSE "table"

AfterPass ==
    /\ pc = "after_pass"
    /\ LET nxt == next_after_pass(pass_num, success[pass_num] = "ok")
       IN /\ pc' = CASE nxt = "pass2" -> "begin_pass"
                     [] nxt = "abort" -> "exit"
                     [] nxt = "table" -> "page_table"
          /\ pass_num' = IF nxt = "pass2" THEN 2 ELSE pass_num
    /\ return_code' = -1
    /\ judged' = [marker |-> FALSE, pdf |-> FALSE]
    /\ UNCHANGED <<toolVars, fs, envVars, selfVars, success, exit_status, table_tool, scale_tool,
                   cleaned, taskVars, inputVars, marker_seen, launched_at>>

\* compile_document's return value
document_success == success[1] = "ok" /\ success[2] = "ok"

\* `if success1 and success2: self.generate_page_structure_table()`
table_wanted(s1, s2) == s1 /\ s2

\* generate_page_structure_table: without the PDF the tool is not run; its
\* non-zero exit and any exception of running it are reported, nothing more
PageTable ==
    /\ pc = "page_table"
    /\ IF table_wanted(success[1] = "ok", success[2] = "ok") /\ PdfFile(tex_file) \in fs
       THEN table_tool' \in {"ok", "failed", "raised"}
       ELSE UNCHANGED table_tool
    /\ pc' = "scale"
    /\ UNCHANGED <<toolVars, fs, envVars, selfVars, pass_num, return_code, success, exit_status,
                   scale_tool, cleaned, taskVars, inputVars, histVars>>

\* ------------------------------------------------------------------ main(), after compile_document
\* the PDF is rescaled whether or not --scale was given
scale_wanted_always(ok, flag) == ok

\* `if success and args.scale: compiler.scale_pdf_to_7x10()`
scale_wanted(ok, flag) == ok /\ flag

\* scale_pdf_to_7x10: without the PDF or the script the tool is not run
\* ("none"); the tool's failure makes it return False, which main() only reports
Scale ==
    /\ pc = "scale"
    /\ \E flag \in BOOLEAN :
          /\ scale' = flag
          /\ IF scale_wanted(document_success, flag) /\ PdfFile(tex_file) \in fs
             THEN scale_tool' \in {"none", "ok", "failed"}
             ELSE UNCHANGED scale_tool
    /\ pc' = "exit"
    /\ UNCHANGED <<toolVars, fs, fs0, tex_file, tex_exists, envVars, selfVars, pass_num,
                   return_code, success, exit_status, table_tool, cleaned, taskVars,
                   histVars>>

\* the status also reflects the post-processing tools
exit_code_tools(ok, table, scaled) ==
    IF ok /\ table # "failed" /\ scaled # "failed" THEN 0 ELSE 1

\* exit(0 if success else 1)
exit_code(ok, table, scaled) == IF ok THEN 0 ELSE 1

Exit ==
    /\ pc = "exit"
    /\ exit_status' = exit_code(document_success, table_tool, scale_tool)
    /\ pc' = "done"
    /\ UNCHANGED <<toolVars, fs, envVars, selfVars, pass_num, return_code, success, table_tool,
                   scale_tool, cleaned, taskVars, inputVars, histVars>>

\* ------------------------------------------------------------------ the compiler
\* the line the compiler prints when it reads chapter n's file: "01_a/main.tex"
T_chapter_tail == <<"_", "a", "/", "m", "a", "i", "n", ".", "t", "e", "x">>
ChapterLine(n) == <<DigitChar(n \div 10), DigitChar(n % 10)>> \o T_chapter_tail

\* the lines the compiler may print
CompilerLines == {ChapterLine(n) : n \in 1..MaxChapter} \cup {T_marker}

Min(a, b) == IF a <= b THEN a ELSE b

\* the compiler prints a line into its output buffer
CompilerPrint(p) ==
    /\ proc[p] = "running"
    /\ nlines < MaxLines
    /\ \E line \in CompilerLines : buf' = [buf EXCEPT ![p] = buf[p] \o line \o <<NL>>]
    /\ nlines' = nlines + 1
    /\ UNCHANGED <<toolVars, fs, log, proc, selfVars, pc, mainVars, cleaned, taskVars, inputVars,
                   histVars>>

\* the buffer reaches the log file a block at a time, or whole when flushed
CompilerWrite(p) ==
    /\ proc[p] = "running"
    /\ buf[p] # <<>>
    /\ \E k \in {Min(BlockSize, Len(buf[p])), Len(buf[p])} :
          /\ log' = [log EXCEPT ![p] = log[p] \o SubSeq(buf[p], 1, k)]
          /\ buf' = [buf EXCEPT ![p] = Slice(buf[p], k + 1, Len(buf[p]))]
    /\ UNCHANGED <<toolVars, fs, nlines, proc, selfVars, pc, mainVars, cleaned, taskVars,
                   inputVars, histVars>>

\* what the compiler leaves on disk: its auxiliary files, and the PDF or not
CompilerFiles(made) ==
    {File(<<>>, N_main_aux), File(<<>>, N_main_log)}
        \cup (IF made THEN {File(<<>>, N_main_pdf)} ELSE {})

\* the compiler exits, with any status, having written the PDF or not; what is
\* left in its buffer is flushed
CompilerExit(p) ==
    /\ proc[p] = "running"
    /\ log' = [log EXCEPT ![p] = log[p] \o buf[p]]
    /\ buf' = [buf EXCEPT ![p] = <<>>]
    /\ UNCHANGED nlines
    /\ proc' = [proc EXCEPT ![p] = "exited"]
    /\ \E code \in {0, 1} : return_code' = code
    /\ \E made \in BOOLEAN : fs' = fs \cup CompilerFiles(made)
    /\ UNCHANGED <<toolVars, selfVars, pc, pass_num, success, exit_status, table_tool,
                   scale_tool, cleaned, taskVars, inputVars, histVars>>

\* ------------------------------------------------------------------ monitor_log_file
\* the polling tasks are daemon threads: they end with the process
Alive == pc # "done"

\* `while self.monitoring:` goes on while the flag is found set
keeps_polling(flag) == flag

\* one round of `while self.monitoring:`, after the sleep of the round before:
\* f.seek(last_pos); new_lines = f.readlines(); last_pos = f.tell().
\* A task that leaves the loop returns, and its locals are gone.
MonitorPoll(t) ==
    /\ Alive
    /\ mpc[t] = "poll"
    /\ IF ~keeps_polling(monitoring)
       THEN /\ mpc' = [mpc EXCEPT ![t] = "done"]
            /\ last_pos' = [last_pos EXCEPT ![t] = 0]
            /\ UNCHANGED new_lines
       ELSE IF LogFile(t) \in fs
       THEN LET read == ReadLines(Slice(log[t], last_pos[t] + 1, Len(log[t])))
            IN /\ new_lines' = [new_lines EXCEPT ![t] = read]
               /\ last_pos' = [last_pos EXCEPT ![t] = Len(log[t])]
               /\ mpc' = [mpc EXCEPT ![t] = IF read = <<>> THEN "poll" ELSE "line"]
       ELSE UNCHANGED <<mpc, new_lines, last_pos>>
    /\ UNCHANGED <<toolVars, fs, envVars, selfVars, pc, mainVars, cleaned, chapter_read,
                   inputVars, histVars>>

\* the task goes on with the next line of the batch, or sleeps
NextLine(t) ==
    /\ new_lines' = [new_lines EXCEPT ![t] = Tail(new_lines[t])]
    /\ mpc' = [mpc EXCEPT ![t] = IF Tail(new_lines[t]) = <<>> THEN "poll" ELSE "line"]

\* `if "Output written on" in line:` self.phase = "Completed";
\* self.pdf_generated = True
CheckCompletion(line) ==
    IF HasMarker(line)
    THEN /\ phase' = "Completed"
         /\ pdf_generated' = TRUE
         /\ marker_seen' = TRUE
    ELSE UNCHANGED <<phase, pdf_generated, marker_seen>>

\* one line of the batch: strip, extract the chapter; for a chapter line
\* self.current_chapter is read here and stored in MonitorStore
MonitorLine(t) ==
    /\ Alive
    /\ mpc[t] = "line"
    /\ LET line == Strip(Head(new_lines[t]))
       IN IF line # <<>> /\ extract_chapter_info(line) # 0
          THEN /\ chapter_read' = [chapter_read EXCEPT ![t] = current_chapter]
               /\ mpc' = [mpc EXCEPT ![t] = "store"]
               /\ UNCHANGED <<new_lines, phase, pdf_generated, marker_seen>>
          ELSE /\ IF line # <<>>
                  THEN CheckCompletion(line)
                  ELSE UNCHANGED <<phase, pdf_generated, marker_seen>>
               /\ NextLine(t)
               /\ UNCHANGED chapter_read
    /\ UNCHANGED <<toolVars, fs, envVars, current_chapter, monitoring, pc, mainVars, cleaned,
                   last_pos, inputVars, judged, launched_at>>

Max(a, b) == IF a >= b THEN a ELSE b

\* max(self.current_chapter, chapter_num), on the value read in MonitorLine
chapter_update(read, num) == Max(read, num)

\* self.current_chapter = max(...), then the completion check of the same line
MonitorStore(t) ==
    /\ Alive
    /\ mpc[t] = "store"
    /\ LET line == Strip(Head(new_lines[t]))
       IN /\ current_chapter' = chapter_update(chapter_read[t], extract_chapter_info(line))
          /\ CheckCompletion(line)
    /\ NextLine(t)
    /\ chapter_read' = [chapter_read EXCEPT ![t] = 0]
    /\ UNCHANGED <<toolVars, fs, envVars, monitoring, pc, mainVars, cleaned, last_pos,
                   inputVars, judged, launched_at>>

\* ------------------------------------------------------------------ specification
MainStep ==
    \/ CheckSource
    \/ CleanDocument
    \/ CleanLogs
    \/ CleanWalk
    \/ BeginPass
    \/ Launch
    \/ Wait
    \/ Judge
    \/ AfterPass
    \/ PageTable
    \/ Scale
    \/ Exit

Next ==
    \/ MainStep
    \/ \E p \in Passes : CompilerPrint(p)
    \/ \E p \in Passes : CompilerWrite(p)
    \/ \E p \in Passes : CompilerExit(p)
    \/ \E t \in Passes : MonitorPoll(t)
    \/ \E t \in Passes : MonitorLine(t)
    \/ \E t \in Passes : MonitorStore(t)

Spec == Init /\ [][Next]_vars

\* ================================================================== claims
\* C1: compile_pass judges a pass successful exactly when a polling task
\* handled the completion marker during the pass or the PDF existed when the
\* pass was judged, after the compiler's exit; the exit code plays no part
C1_SuccessIsMarkerOrPdf ==
    pc = "after_pass" =>
        /\ return_code \in {0, 1}
        /\ (success[pass_num] = "ok") = (judged.marker \/ judged.pdf)

\* C1 witness: a pass judged successful although the compiler exited with
\* status 1, on the marker alone (no PDF)
C1_Witness ==
    /\ pc = "after_pass"
    /\ return_code = 1
    /\ success[pass_num] = "ok"
    /\ judged.marker
    /\ ~judged.pdf

\* C2: pass 2's compiler is launched only after pass 1's compiler has exited
\* and pass 1 was judged successful; when pass 1 is judged failed pass 2 is
\* never launched and the run ends in failure
C2_Pass2OnlyAfterPass1 ==
    /\ proc[2] # "none" => (proc[1] = "exited" /\ success[1] = "ok")
    /\ success[1] = "failed" =>
          /\ proc[2] = "none"
          /\ mpc[2] = "idle"
          /\ pc \in {"after_pass", "exit", "done"}
          /\ pc = "done" => exit_status = 1

\* C2 witness: a run that has ended after a failed pass 1, pass 2 never launched
C2_Witness ==
    /\ pc = "done"
    /\ success[1] = "failed"
    /\ proc[2] = "none"
    /\ exit_status = 1

\* C3: every piece of the log a polling task takes as a line is one complete,
\* newline-terminated line the compiler printed, never a part of one
C3_LinesHandledWhole ==
    \A t \in Passes : \A i \in 1..Len(new_lines[t]) :
        \E line \in CompilerLines : new_lines[t][i] = line \o <<NL>>

\* C4: while pass 2's compiler runs, pass 1's polling task reads nothing more
\* from its log (it may only leave its loop)
C4_NoStalePolling ==
    [][proc[2] = "running" => (last_pos'[1] = last_pos[1] \/ mpc'[1] = "done")]_vars

\* C5 as claimed: a run of the cleaning step completes before each pass's
\* launch, one for pass 1 and another for pass 2
C5_CleanBeforeEachPass ==
    \A p \in Passes : launched_at[p] # -1 => launched_at[p] >= p

\* C5 as amended: the cleaning step runs once in a run and has completed when
\* pass 1's compiler is launched; it does not run again before pass 2, whose
\* compiler finds the auxiliary files pass 1 left
C5_CleanOnceBeforePass1 ==
    /\ cleaned <= 1
    /\ \A p \in Passes : launched_at[p] # -1 => launched_at[p] = 1
    /\ proc[1] # "none" => cleaned = 1
    /\ proc[2] # "none" => File(<<>>, N_main_aux) \in fs

\* C5 witness: pass 2's compiler running after the single cleaning
C5_Witness ==
    /\ proc[2] = "running"
    /\ launched_at[2] = 1
    /\ cleaned = 1
    /\ File(<<>>, N_main_aux) \in fs

\* C6: main() exits with 0 exactly when both passes were judged successful and
\* with 1 otherwise, however the page-table generator and the rescaling ended
C6_ExitStatus ==
    pc = "done" =>
        /\ exit_status \in {0, 1}
        /\ exit_status = 0 <=> (success[1] = "ok" /\ success[2] = "ok")

\* C6 witness: status 0 although both post-processing tools failed
C6_Witness ==
    /\ pc = "done"
    /\ exit_status = 0
    /\ table_tool = "failed"
    /\ scale_tool = "failed"

\* C7: the page-table generator is invoked only once both passes were judged
\* successful, the rescaling tool only after the page-table step and only
\* with the scale flag; after a failed pass neither is invoked
C7_ToolsOnlyAfterSuccess ==
    /\ table_tool # "none" =>
          /\ success[1] = "ok" /\ success[2] = "ok"
          /\ pc \in {"scale", "exit", "done"}
    /\ scale_tool # "none" =>
          /\ success[1] = "ok" /\ success[2] = "ok"
          /\ scale = TRUE
          /\ pc \in {"exit", "done"}
    /\ (success[1] = "failed" \/ success[2] = "failed") =>
          (table_tool = "none" /\ scale_tool = "none")

\* C7 witness: both tools were invoked, the page-table generator first
C7_Witness ==
    /\ table_tool = "ok"
    /\ scale_tool = "ok"
    /\ scale = TRUE

\* C8 as claimed: the phase is Running once the compiler is launched, and ends
\* as Completed after a successful pass and Failed after a failed one
C8_PhaseLifecycle ==
    /\ pc = "wait" => phase \in {"Running", "Completed"}
    /\ pc = "after_pass" =>
          phase = (IF success[pass_num] = "ok" THEN "Completed" ELSE "Failed")

\* a polling task handles a line holding the completion marker in this step
HandlesMarker ==
    \E t \in Passes :
        /\ mpc[t] \in {"line", "store"}
        /\ HasMarker(Strip(Head(new_lines[t])))
        /\ new_lines'[t] = Tail(new_lines[t])

\* C8 as amended: the phase starts as Initializing and its only transition is
\* to Completed, made when a polling task handles a line holding the
\* completion marker; it is never Running or Failed and no pass resets it
C8_PhaseOnlyCompletes ==
    [][/\ phase' \in {"Initializing", "Completed"}
       /\ phase' # phase =>
             (phase = "Initializing" /\ phase' = "Completed" /\ HandlesMarker)]_vars

\* C8 witness: pass 2 judged failed while the phase is still the Completed that
\* pass 1's marker set
C8_Witness ==
    /\ pc = "after_pass"
    /\ pass_num = 2
    /\ success[2] = "failed"
    /\ phase = "Completed"

\* C9: self.current_chapter decreases only when a pass begins
C9_ChapterNeverDecreases ==
    [][current_chapter' < current_chapter => pc = "begin_pass"]_vars

\* ------------------------------------------------------------------ cleaning alone
\* a file lies in a version-control metadata directory
InGit(f) == \E i \in 1..Len(f.dir) : f.dir[i] = T_git

N_ch == <<"c", "h">>
N_x_synctex_gz == <<"x", ".", "s", "y", "n", "c", "t", "e", "x", ".", "g", "z">>
DirNames == {T_git, N_ch}
FileNames == {N_main_aux, N_x_synctex_gz, N_HEAD, N_main_pdf, N_pass1_log}

\* the directories of depth 0..MaxDepth
RECURSIVE DirsOfDepth(_)
DirsOfDepth(n) ==
    IF n = 0 THEN {<<>>}
    ELSE {Append(d, name) : d \in DirsOfDepth(n - 1), name \in DirNames}

TreeDirs == UNION {DirsOfDepth(n) : n \in 0..MaxDepth}
TreeFiles == {File(d, n) : d \in TreeDirs, n \in FileNames}

\* the trees of at most MaxFiles files
RECURSIVE TreesOfSize(_)
TreesOfSize(n) ==
    IF n = 0 THEN {{}}
    ELSE LET smaller == TreesOfSize(n - 1)
         IN smaller \cup {t \cup {f} : t \in smaller, f \in TreeFiles}

\* the document is main.tex of the working directory or of the directory ch
Documents == {MainTex, [dir |-> <<N_ch>>, stem |-> N_main]}

InitClean ==
    /\ \E files \in TreesOfSize(MaxFiles), tex \in Documents : InitWith(files, tex)
    /\ pc = "clean_document"
    /\ ToolsIdle

NextClean ==
    \/ CleanDocument
    \/ CleanLogs
    \/ CleanWalk

SpecClean == InitClean /\ [][NextClean]_vars

\* C10: cleaning never deletes a file that lies in a .git directory, at any
\* depth and whatever its name
C10_GitFilesKept == \A f \in fs0 : InGit(f) => f \in fs

\* C10 witness: cleaning has run; it kept an artifact-named file below a nested
\* .git directory and deleted a file elsewhere
C10_Witness ==
    /\ cleaned = 1
    /\ \E f \in fs0 :
          /\ InGit(f)
          /\ Len(f.dir) >= 2
          /\ walk_removes_nogit(f)
          /\ f \in fs
    /\ fs # fs0

\* ------------------------------------------------------------------ flattener: the root document
\* Python's s.splitlines(): the pieces between newlines, without them
RECURSIVE splitlines(_)
splitlines(s) ==
    IF s = <<>> THEN <<>>
    ELSE LET nls == {i \in 1..Len(s) : s[i] = NL}
         IN IF nls = {} THEN <<s>>
            ELSE LET n == CHOOSE i \in nls : \A j \in nls : i <= j
                 IN <<Slice(s, 1, n - 1)>> \o splitlines(Slice(s, n + 1, Len(s)))

\* Python's s.startswith(pre)
StartsWith(s, pre) == MatchAt(s, pre, 1)

\* the chapter directive's name
T_directive == <<"\\", "c", "h", "a", "p", "t", "e", "r", "w", "i", "t", "h", "s", "u", "m", "m", "a", "r", "y", "f", "r", "o", "m", "f", "i", "l", "e">>

\* the first position >= i of s that holds the character c, 0 if there is none
FirstAt(s, c, i) ==
    LET at == {j \in i..Len(s) : s[j] = c}
    IN IF at = {} THEN 0 ELSE CHOOSE j \in at : \A k \in at : j <= k

\* \{([^\}]+)\} at position p of line: the end of the match, 0 if there is none
BraceGroupEnd(line, p, open, close) ==
    IF p <= Len(line) /\ line[p] = open
    THEN LET q == FirstAt(line, close, p + 1)
         IN IF q >= p + 2 THEN q ELSE 0
    ELSE 0

\* the regular expression of parse_main_for_chapters, tried at position i
DirectiveMatchAt(line, i) ==
    IF ~MatchAt(line, T_directive, i)
    THEN [found |-> FALSE, label |-> <<>>, directory |-> <<>>]
    ELSE LET k == i + Len(T_directive)
             b == BraceGroupEnd(line, k, "[", "]")
             withLabel == IF b = 0 THEN 0 ELSE BraceGroupEnd(line, b + 1, "{", "}")
             bare == BraceGroupEnd(line, k, "{", "}")
         IN IF withLabel # 0
            THEN [found |-> TRUE, label |-> Slice(line, k + 1, b - 1),
                  directory |-> Slice(line, b + 2, withLabel - 1)]
            ELSE IF bare # 0
            THEN [found |-> TRUE, label |-> <<>>,
                  directory |-> Slice(line, k + 1, bare - 1)]
            ELSE [found |-> FALSE, label |-> <<>>, directory |-> <<>>]

\* re.search of that expression in line: its leftmost match (label <<>> is None)
directive_search(line) ==
    LET at == {i \in 1..Len(line) : DirectiveMatchAt(line, i).found}
    IN IF at = {} THEN [found |-> FALSE, label |-> <<>>, directory |-> <<>>]
       ELSE DirectiveMatchAt(line, CHOOSE i \in at : \A j \in at : i <= j)

\* the test that makes the loop skip a line
is_comment_never(stripped) == FALSE
is_comment(stripped) == StartsWith(stripped, <<"%">>)

\* the loop of parse_main_for_chapters from line i (counted from 0) on;
\* first is first_chapter_idx, -1 for None
RECURSIVE parse_loop(_, _, _, _)
parse_loop(lines, i, chs, first) ==
    IF i >= Len(lines) THEN [first_chapter_idx |-> first, chapters |-> chs]
    ELSE LET line == lines[i + 1]
             stripped == Strip(line)
         IN IF is_comment(stripped) THEN parse_loop(lines, i + 1, chs, first)
            ELSE IF Contains(line, T_directive)
            THEN LET m == directive_search(line)
                     ref == [label |-> m.label, directory |-> m.directory, line_index |-> i]
                 IN parse_loop(lines, i + 1,
                               IF m.found THEN Append(chs, ref) ELSE chs,
                               IF first = -1 THEN i ELSE first)
            ELSE parse_loop(lines, i + 1, chs, first)

\* where the header ends
header_end_start(first, n) == IF first # -1 THEN first ELSE 0
header_end(first, n) == IF first # -1 THEN first ELSE n

parse_main_for_chapters(text) ==
    LET lines == splitlines(text)
        r == parse_loop(lines, 0, <<>>, -1)
    IN [header_lines |-> Slice(lines, 1, header_end(r.first_chapter_idx, Len(lines))),
        chapters |-> r.chapters]

\* ------------------------------------------------------------------ flattener: files
\* A file is [state, text]: state is "absent", "unreadable" (it exists and
\* reading it raises) or "file".  File text is carried character by
\* character; the fixed TeX that the flattener writes is carried one element
\* per literal piece, since nothing looks inside it.
Absent == [state |-> "absent", text |-> <<>>]
Unreadable == [state |-> "unreadable", text |-> <<>>]
TextFile(t) == [state |-> "file", text |-> t]

\* Path.exists()
exists(f) == f.state # "absent"

\* the text read, "" when reading raises
read_text_file(f) == IF f.state = "file" THEN f.text ELSE <<>>

\* Python's s.rstrip(chars)
RStripChars(s, chars) ==
    LET keep == {i \in 1..Len(s) : s[i] \notin chars}
    IN IF keep = {} THEN <<>>
       ELSE SubSeq(s, 1, CHOOSE i \in keep : \A j \in keep : j <= i)

\* Python's s.rstrip()
RStrip(s) == RStripChars(s, Whitespace)

\* the first line that is neither empty nor a comment, stripped; "" if none
read_first_nonempty_line(f) ==
    LET raws == ReadLines(read_text_file(f))
        good == {i \in 1..Len(raws) :
                    Strip(raws[i]) # <<>> /\ ~StartsWith(Strip(raws[i]), <<"%">>)}
    IN IF good = {} THEN <<>>
       ELSE Strip(raws[CHOOSE i \in good : \A j \in good : i <= j])

\* the file n of chapter directory d
FragmentFile(d, n) == IF d \in DOMAIN frag THEN frag[d][n] ELSE Absent

\* path.relative_to(ROOT) of that file
FragmentPath(d, n) == d \o <<"/", n>>

T_begin_inline == "% BEGIN INLINE "
T_end_inline == "% END INLINE "

\* the marker lines around a file's content
BeginMarker(path) == <<T_begin_inline>> \o path \o <<NL>>
EndMarker(path) == <<NL, T_end_inline>> \o path

\* what inline_tex_file makes of the text read from the file at path
inline_text_always(path, content) ==
    BeginMarker(path) \o RStrip(content) \o EndMarker(path) \o <<NL>>
inline_text(path, content) ==
    IF content # <<>>
    THEN BeginMarker(path) \o RStrip(content) \o EndMarker(path) \o <<NL>>
    ELSE <<>>

inline_tex_file(d, n) ==
    inline_text(FragmentPath(d, n), read_text_file(FragmentFile(d, n)))

\* ------------------------------------------------------------------ flattener: the front matter
T_input_open == <<"\\", "i", "n", "p", "u", "t", "{">>
T_intro == <<"i", "n", "t", "r", "o">>
T_prologue == <<"p", "r", "o", "l", "o", "g", "u", "e">>
T_titlepage == <<"t", "i", "t", "l", "e", "p", "a", "g", "e">>
T_preamble == <<"p", "r", "e", "a", "m", "b", "l", "e">>

\* the name matched by ^\\input\{([^\}]+)\}\s*$ in the stripped line, <<>> if
\* the line does not match
input_name(line) ==
    LET s == Strip(line)
        q == FirstAt(s, "}", Len(T_input_open) + 1)
    IN IF StartsWith(s, T_input_open) /\ q >= Len(T_input_open) + 2
          /\ \A k \in (q + 1)..Len(s) : s[k] \in Whitespace
       THEN Slice(s, Len(T_input_open) + 1, q - 1)
       ELSE <<>>

\* the front-matter file <name>.tex beside the root document
RootFile(name) == IF name \in DOMAIN root_files THEN root_files[name] ELSE Absent

\* the line itself stands for None
inline_if_root_input(line) ==
    LET name == input_name(line)
        content == read_text_file(RootFile(name))
    IN IF name = <<>> \/ name = T_preamble THEN line
       ELSE IF name \in {T_intro, T_prologue, T_titlepage} /\ content # <<>>
       THEN <<T_begin_inline>> \o name \o <<".tex", NL>> \o RStrip(content)
            \o <<NL, T_end_inline>> \o name \o <<".tex">>
       ELSE line

\* ------------------------------------------------------------------ flattener: the chapter template
\* The literal of build_title_page_block is not a raw string: Python reads
\* \t, \b, \v, \f and \r in it as the control characters
C_TAB == "\t"
C_FF == "\f"
C_CR == "\r"
\* backspace and vertical tab
C_BS == "\\x08"
C_VT == "\\x0b"

build_title_page_block(title_tex) ==
    <<NL, "% --- PAGE 1: Dedicated Title Page (big, centered) ---", NL,
      C_TAB, "hispagestyle{empty}", NL,
      C_BS, "egin{center}", NL,
      "    ", C_VT, "space*{", C_FF, "ill}", NL,
      "    {", C_FF, "ontsize{48pt}{62pt}\\selectfont", C_BS, "fseries", C_CR, "aggedright", NL,
      "    \\parbox{0.8", C_TAB, "extwidth}{\\centering">>
    \o <<NL>> \o RStripChars(title_tex, {NL}) \o <<NL>>
    \o <<"    }}", NL,
         "    ", C_VT, "space*{", C_FF, "ill}", NL,
         "\\end{center}", NL,
         "\\clearpage", NL>>

\* "\n".join(items)
RECURSIVE JoinLines(_)
JoinLines(items) ==
    IF items = <<>> THEN <<>>
    ELSE IF Len(items) = 1 THEN items[1]
    ELSE items[1] \o <<NL>> \o JoinLines(Tail(items))

build_page3_intro_block(title_tex, summary_tex, topicmap_tex, quote_tex) ==
    LET body ==
            << <<"% --- PAGE 3: Title + Summary + Topicmap + Quote ---">>,
               <<"\\thispagestyle{empty}">>,
               <<"\\begin{center}">>,
               <<"    \\vspace*{\\fill}">>,
               <<"    {\\Huge \\bfseries ">>,
               RStrip(title_tex),
               <<"    }">>,
               <<>>,
               <<"    \\vspace{2em}">>,
               <<"    \\begin{minipage}{0.8\\textwidth}">>,
               <<"        {\\fontsize{13pt}{18pt}\\selectfont\\color{black}">>,
               <<"        \\justifying">>,
               RStrip(summary_tex),
               <<"        }">>,
               <<"    \\end{minipage}">>,
               <<>>,
               <<"    \\vspace{2em}">>,
               <<"    \\chapterseparator">>,
               <<"    \\vspace{2em}">> >>
            \o (IF topicmap_tex # <<>>
                THEN << <<"    \\begin{minipage}{0.7\\textwidth}">>,
                        <<"        \\centering">>,
                        RStrip(topicmap_tex),
                        <<"    \\end{minipage}">> >>
                ELSE <<>>)
            \o << <<"    \\vfill">> >>
            \o (IF quote_tex # <<>>
                THEN << <<"    \\vspace{2em}">>,
                        <<"    \\begin{minipage}{0.8\\textwidth}">>,
                        <<"        \\centering \\itshape">>,
                        RStrip(quote_tex),
                        <<"    \\end{minipage}">> >>
                ELSE <<>>)
            \o << <<"    \\vspace*{\\fill}">>,
                  <<"\\end{center}">>,
                  <<"\\clearpage">> >>
    IN JoinLines(body) \o <<NL>>

\* page 2 of the template: the items between its heading and its \clearpage
sidenote_page_omitted(d) ==
    IF exists(FragmentFile(d, "sidenote.tex"))
    THEN << inline_tex_file(d, "sidenote.tex") >>
    ELSE <<>>
sidenote_page(d) ==
    IF exists(FragmentFile(d, "sidenote.tex"))
    THEN << inline_tex_file(d, "sidenote.tex") >>
    ELSE << <<"\\thispagestyle{empty}">>, <<"\\mbox{}">> >>

\* the optional extras, in the order the template takes them
Extras_joke_first == <<"joke.tex", "phenomenon_extra.tex", "exercises.tex", "cartoon.tex",
                       "imagefigure.tex">>
Extras == <<"phenomenon_extra.tex", "joke.tex", "exercises.tex", "cartoon.tex",
            "imagefigure.tex">>

\* the items appended for the extras from the k-th on
RECURSIVE extras_from(_, _)
extras_from(d, k) ==
    IF k > Len(Extras) THEN <<>>
    ELSE (IF exists(FragmentFile(d, Extras[k]))
          THEN << inline_tex_file(d, Extras[k]) >> ELSE <<>>)
         \o extras_from(d, k + 1)

T_page2 == "% --- PAGE 2: Sidenote (or empty) ---"
T_pages4to8 == "% --- PAGES 4-8: Historical + Main + Optional ---"
T_page9 == "% --- PAGE 9: Technical ---"
T_chapter_open == "% ===== CHAPTER "
T_chapter_close == " ====="

\* what one iteration of the loop of generate_flattened appends to output
chapter_items(ch) ==
    LET d == ch.directory
        title_first == read_first_nonempty_line(FragmentFile(d, "title.tex"))
        summary_first == read_first_nonempty_line(FragmentFile(d, "summary.tex"))
        title_tex == inline_tex_file(d, "title.tex")
        summary_tex == inline_tex_file(d, "summary.tex")
        topicmap_tex == read_text_file(FragmentFile(d, "topicmap.tex"))
        quote_tex == read_text_file(FragmentFile(d, "quote.tex"))
    IN << <<>>,
          <<T_chapter_open>> \o d \o <<T_chapter_close>>,
          <<"\\refstepcounter{chapter}">> >>
       \o (IF ch.label # <<>> THEN << <<"\\label{">> \o ch.label \o <<"}">> >> ELSE <<>>)
       \o << <<"\\phantomsection">>,
             <<"% --- Verso empty page before chapter ---">>,
             <<"\\clearpage">>,
             <<"\\thispagestyle{empty}">>,
             <<"\\mbox{}">>,
             <<"\\clearpage">>,
             build_title_page_block(title_tex),
             <<T_page2>> >>
       \o sidenote_page(d)
       \o << <<"\\clearpage">>,
             <<"% --- Table of Contents entry (title + summary first lines) ---">>,
             <<"\\addcontentsline{toc}{chapter}{%">>,
             <<"  \\protect\\numberline{\\thechapter}">> \o title_first \o <<"\\\\">>,
             <<"  {\\normalfont\\small\\textit{\\textcolor{summarycolor}{">>
                 \o summary_first \o <<"}}}%">>,
             <<"}">>,
             <<"\\clearpage">>,
             build_page3_intro_block(title_tex, summary_tex, topicmap_tex, quote_tex),
             <<T_pages4to8>>,
             <<"\\chaptermark{">> \o title_first \o <<"}">>,
             <<"{\\LARGE \\bfseries ">>,
             RStrip(title_tex),
             <<"}">>,
             inline_tex_file(d, "historical.tex"),
             inline_tex_file(d, "main.tex") >>
       \o extras_from(d, 1)
       \o << <<T_page9>>,
             <<"\\newpage">>,
             inline_tex_file(d, "technical.tex") >>

\* the key the chapters are sorted by
chapter_key_directory(c) == ParseInt(Slice(c.directory, 1, DigitRunEnd(c.directory, 1)))
chapter_key(c) == c.line_index

\* Python's sorted(chs, key=chapter_key): a stable sort
RECURSIVE sorted_chapters(_)
sorted_chapters(chs) ==
    IF chs = <<>> THEN <<>>
    ELSE LET rest == sorted_chapters(Tail(chs))
             c == Head(chs)
             before == {i \in 1..Len(rest) : chapter_key(rest[i]) < chapter_key(c)}
             n == Cardinality(before)
         IN Slice(rest, 1, n) \o <<c>> \o Slice(rest, n + 1, Len(rest))

\* the first line of the output; n is the number of earlier runs
T_banner == "% === FLATTENED BOOK GENERATED BY utils/flatten_book.py ==="
banner_numbered(n) == <<T_banner, DigitChar(n)>>
banner(n) == <<T_banner>>

\* ------------------------------------------------------------------ flattener: generate_flattened
\* lines 159-166: the root document is parsed and the header composed
RECURSIVE header_items(_)
header_items(lines) ==
    IF lines = <<>> THEN <<>>
    ELSE <<inline_if_root_input(Head(lines))>> \o header_items(Tail(lines))

FlattenHeader ==
    /\ fpc = "start"
    /\ LET r == parse_main_for_chapters(main_tex)
       IN /\ header_lines' = r.header_lines
          /\ chapters' = r.chapters
          /\ output' = <<banner(Len(written))>> \o header_items(r.header_lines)
          /\ todo' = sorted_chapters(r.chapters)
    /\ fpc' = "chapters"
    /\ UNCHANGED <<main_tex, frag, root_files, written>>
    /\ UNCHANGED notFlatten

\* lines 172-255: one iteration of the loop over the chapters
FlattenChapter ==
    /\ fpc = "chapters"
    /\ todo # <<>>
    /\ output' = output \o chapter_items(Head(todo))
    /\ todo' = Tail(todo)
    /\ UNCHANGED <<main_tex, frag, root_files, header_lines, chapters, written, fpc>>
    /\ UNCHANGED notFlatten

\* lines 258-261: the document is closed and written
FlattenWrite ==
    /\ fpc = "chapters"
    /\ todo = <<>>
    /\ output' = Append(output, <<"\\end{document}">>)
    /\ written' = Append(written, JoinLines(output') \o <<NL>>)
    /\ fpc' = "done"
    /\ UNCHANGED <<main_tex, frag, root_files, header_lines, chapters, todo>>
    /\ UNCHANGED notFlatten

\* the program is started a second time on the same files
FlattenAgain ==
    /\ fpc = "done"
    /\ Len(written) < 2
    /\ header_lines' = <<>>
    /\ chapters' = <<>>
    /\ output' = <<>>
    /\ fpc' = "start"
    /\ UNCHANGED <<main_tex, frag, root_files, todo, written>>
    /\ UNCHANGED notFlatten

\* --- the inputs
D_01_A == <<"0", "1", "_", "A">>
D_02_B == <<"0", "2", "_", "B">>
ChapterDirs == {D_01_A, D_02_B}

FragmentNames ==
    {"title.tex", "summary.tex", "sidenote.tex", "historical.tex", "main.tex",
     "technical.tex", "topicmap.tex", "quote.tex"} \cup {Extras[k] : k \in 1..Len(Extras)}

\* the text of a fragment: an empty line, a comment line and a line naming the file
TextOf(d, n) == <<NL, "%", "c", NL, "T", ":">> \o FragmentPath(d, n) \o <<" ", NL>>

\* a chapter directory with all its fragments
Complete(d) == [n \in FragmentNames |-> TextFile(TextOf(d, n))]

\* the ways one fragment can fail to be a file with text: it does not exist,
\* reading it raises, or it holds white space only
Deficient == {Absent, Unreadable, TextFile(<<" ", NL>>)}

\* the complete directory and the directories with one deficient fragment
FragmentSets(d) ==
    {Complete(d)} \cup
    {[Complete(d) EXCEPT ![n] = f] : n \in FragmentNames, f \in Deficient}

L_preamble == <<"\\", "i", "n", "p", "u", "t", "{", "p", "r", "e", "a", "m", "b", "l", "e", "}">>
L_intro == <<" ", " ", "\\", "i", "n", "p", "u", "t", "{", "i", "n", "t", "r", "o", "}", " ">>
L_dir_a == T_directive \o <<"[", "c", "h", ":", "a", "]", "{", "0", "1", "_", "A", "}">>
L_dir_b == T_directive \o <<"{", "0", "2", "_", "B", "}", " ", "%", " ", "s", "e", "c", "o", "n", "d">>
L_commented == <<" ", "%", " ">> \o T_directive \o <<"{", "0", "2", "_", "B", "}">>
L_malformed == <<"\\", "l", "e", "t", "\\", "c">> \o T_directive
LineShapes == {L_preamble, L_intro, L_dir_a, L_dir_b, L_commented, L_malformed}

RECURSIVE LinesUpTo(_)
LinesUpTo(n) ==
    IF n = 0 THEN {<<>>}
    ELSE LET shorter == LinesUpTo(n - 1)
         IN shorter \cup {Append(ls, l) : ls \in shorter, l \in LineShapes}

\* the root documents: every line ends with a newline
RootDocuments == {JoinLines(ls) \o (IF ls = <<>> THEN <<>> ELSE <<NL>>) : ls \in LinesUpTo(MaxRootLines)}

InitFlatten ==
    /\ InitWith(StartTree, MainTex)
    /\ pc = "off"
    /\ SubsetIdle
    /\ TableIdle
    /\ ReadersIdle
    /\ \E doc \in RootDocuments, a \in FragmentSets(D_01_A) :
          /\ main_tex = doc
          /\ frag = [d \in ChapterDirs |-> IF d = D_01_A THEN a ELSE Complete(d)]
    /\ root_files = [n \in {T_intro, T_preamble} |-> TextFile(TextOf(<<>>, "x"))]
    /\ header_lines = <<>>
    /\ chapters = <<>>
    /\ output = <<>>
    /\ todo = <<>>
    /\ written = <<>>
    /\ fpc = "start"

NextFlatten ==
    \/ FlattenHeader
    \/ FlattenChapter
    \/ FlattenWrite
    \/ FlattenAgain

SpecFlatten == InitFlatten /\ [][NextFlatten]_vars

\* ------------------------------------------------------------------ flattener: claims
\* what the last finished run wrote
FlatText == written[Len(written)]

\* the lines of the root document
RootLines == splitlines(main_tex)

\* the positions of the text that hold the literal piece tok, and the k-th of them
PositionsOf(text, tok) == {i \in 1..Len(text) : text[i] = tok}
NthAt(text, tok, k) ==
    CHOOSE i \in PositionsOf(text, tok) :
        Cardinality({j \in PositionsOf(text, tok) : j <= i}) = k

\* the directory named by the k-th chapter heading of the text
HeadingDir(text, k) ==
    LET i == NthAt(text, T_chapter_open, k)
    IN Slice(text, i + 1, FirstAt(text, T_chapter_close, i + 1) - 1)

\* a line whose stripped content begins with the comment marker
IsCommentLine(l) == Strip(l) # <<>> /\ Strip(l)[1] = "%"

\* the lines (counted from 1) that are not comments and hold the directive's name
DirectiveLines ==
    {i \in 1..Len(RootLines) :
        ~IsCommentLine(RootLines[i]) /\ Contains(RootLines[i], T_directive)}

\* C11: the parsed references are in the order of their lines, each is the
\* directive of its line, and the written document holds exactly one chapter
\* heading per reference, in that same order
C11_ChaptersInDocumentOrder ==
    fpc = "done" =>
        /\ \A i, j \in DOMAIN chapters :
              i < j => chapters[i].line_index < chapters[j].line_index
        /\ \A i \in DOMAIN chapters :
              directive_search(RootLines[chapters[i].line_index + 1]).directory
                  = chapters[i].directory
        /\ Cardinality(PositionsOf(FlatText, T_chapter_open)) = Len(chapters)
        /\ \A k \in DOMAIN chapters : HeadingDir(FlatText, k) = chapters[k].directory

\* C11 witness: two chapters written in the order of their lines, which is
\* not the order of their directory numbers
C11_Witness ==
    /\ fpc = "done"
    /\ Len(chapters) = 2
    /\ HeadingDir(FlatText, 1) = D_02_B
    /\ HeadingDir(FlatText, 2) = D_01_A

\* C12: no reference comes from a comment line, and the header is the lines
\* before the first line that is not a comment and holds the directive's name,
\* comment lines before it included
C12_CommentLinesSkipped ==
    fpc # "start" =>
        /\ \A i \in DOMAIN chapters :
              ~IsCommentLine(RootLines[chapters[i].line_index + 1])
        /\ \A i \in DirectiveLines : Len(header_lines) < i
        /\ header_lines = Slice(RootLines, 1, Len(header_lines))
        /\ Len(header_lines) < Len(RootLines) => (Len(header_lines) + 1) \in DirectiveLines

\* C12 witness: a commented-out directive is followed by a directive; the
\* header holds the former and the only reference is the latter
C12_Witness ==
    /\ fpc = "chapters"
    /\ header_lines = <<L_commented>>
    /\ Len(chapters) = 1
    /\ chapters[1].line_index = 1

WrittenDirs == {chapters[k].directory : k \in DOMAIN chapters}

\* the fragment n of directory d has text that the template takes up: the
\* extras and the sidenote are taken when they exist, the others always
Included(d, n) == RStrip(read_text_file(FragmentFile(d, n))) # <<>>

\* wherever body stands in the text, the BEGIN INLINE line of path stands
\* right before it and the END INLINE line of path right after it
Enclosed(text, path, body) ==
    \A i \in 1..Len(text) :
        MatchAt(text, body, i) =>
            /\ MatchAt(text, BeginMarker(path), i - Len(BeginMarker(path)))
            /\ MatchAt(text, EndMarker(path) \o <<NL>>, i + Len(body))

\* C14 as claimed: in the written document the text of every included fragment
\* stands between the BEGIN INLINE and END INLINE lines that name its file
C14_FragmentsBetweenMarkers ==
    fpc = "done" =>
        \A d \in WrittenDirs, n \in FragmentNames :
            Included(d, n) =>
                LET body == RStrip(read_text_file(FragmentFile(d, n)))
                IN /\ Contains(FlatText, body)
                   /\ Enclosed(FlatText, FragmentPath(d, n), body)

\* the text right after the k-th occurrence of the heading tok
FollowsNth(text, tok, k, piece) == MatchAt(text, piece, NthAt(text, tok, k) + 1)

\* C15: every chapter has its page 2: the heading, then the sidenote between
\* its marker lines when sidenote.tex exists and has text, nothing when it
\* exists without text, and \thispagestyle{empty} and \mbox{} when it does
\* not exist; then \clearpage
C15_SidenoteOrBlankPage ==
    fpc = "done" =>
        /\ Cardinality(PositionsOf(FlatText, T_page2)) = Len(chapters)
        /\ \A k \in DOMAIN chapters :
              LET d == chapters[k].directory
                  f == FragmentFile(d, "sidenote.tex")
                  path == FragmentPath(d, "sidenote.tex")
              IN FollowsNth(FlatText, T_page2, k,
                    IF ~exists(f)
                    THEN <<NL, "\\thispagestyle{empty}", NL, "\\mbox{}", NL, "\\clearpage", NL>>
                    ELSE IF read_text_file(f) = <<>>
                    THEN <<NL, NL, "\\clearpage", NL>>
                    ELSE <<NL>> \o BeginMarker(path) \o RStrip(read_text_file(f))
                         \o EndMarker(path) \o <<NL, NL, "\\clearpage", NL>>)

\* C15 witness: a chapter without sidenote.tex and a chapter with it were written
C15_Witness ==
    /\ fpc = "done"
    /\ Len(chapters) = 2
    /\ chapters[1].directory = D_01_A
    /\ chapters[2].directory = D_02_B
    /\ ~exists(FragmentFile(D_01_A, "sidenote.tex"))
    /\ FollowsNth(FlatText, T_page2, 1, <<NL, "\\thispagestyle{empty}">>)
    /\ FollowsNth(FlatText, T_page2, 2, <<NL, T_begin_inline>>)

Required == {"title.tex", "summary.tex", "main.tex", "technical.tex"}

\* C16: every run ends with a written document that closes with
\* \end{document}; it holds every chapter's heading, page 2 and page 9 in
\* turn, and no marker line for a required fragment that is missing or
\* cannot be read
C16_MissingFragmentEmptyBlock ==
    /\ fpc \in {"start", "chapters", "done"}
    /\ fpc = "done" =>
        /\ EndsWith(FlatText, <<NL, "\\end{document}", NL>>)
        /\ Cardinality(PositionsOf(FlatText, T_chapter_open)) = Len(chapters)
        /\ Cardinality(PositionsOf(FlatText, T_page9)) = Len(chapters)
        /\ \A k \in DOMAIN chapters :
              /\ NthAt(FlatText, T_chapter_open, k) < NthAt(FlatText, T_page2, k)
              /\ NthAt(FlatText, T_page2, k) < NthAt(FlatText, T_page9, k)
              /\ k < Len(chapters) =>
                    NthAt(FlatText, T_page9, k) < NthAt(FlatText, T_chapter_open, k + 1)
        /\ \A d \in WrittenDirs, n \in Required :
              read_text_file(FragmentFile(d, n)) = <<>> =>
                  /\ ~Contains(FlatText, BeginMarker(FragmentPath(d, n)))
                  /\ ~Contains(FlatText, EndMarker(FragmentPath(d, n)))

\* C16 witness: the first chapter's title.tex cannot be read; the chapter and
\* the one after it were written
C16_Witness ==
    /\ fpc = "done"
    /\ Len(chapters) = 2
    /\ chapters[1].directory = D_01_A
    /\ FragmentFile(D_01_A, "title.tex") = Unreadable
    /\ HeadingDir(FlatText, 2) = D_02_B
    /\ Contains(FlatText, BeginMarker(FragmentPath(D_02_B, "technical.tex")))

RECURSIVE split(_, _)
split(s, sep) ==
    LET at == FirstAt(s, sep, 1)
    IN IF at = 0 THEN <<s>>
       ELSE <<Slice(s, 1, at - 1)>> \o split(Slice(s, at + 1, Len(s)), sep)

\* Python's s.isdigit()
isdigit(s) == s # <<>> /\ \A i \in 1..Len(s) : s[i] \in Digits

\* int(s) raises ValueError
int_raises(s) == ~isdigit(Strip(s))

\* int(s) when it does not raise
int(s) == ParseInt(Strip(s))

\* list(range(a, b + 1))
range_list(a, b) == [i \in 1..(IF b >= a THEN b - a + 1 ELSE 0) |-> a + i - 1]

\* Python's s.lower() for the letters A-Z
UpperCase ==
    <<"A", "B", "C", "D", "E", "F", "G", "H", "I", "J", "K", "L", "M",
      "N", "O", "P", "Q", "R", "S", "T", "U", "V", "W", "X", "Y", "Z">>
LowerCase ==
    <<"a", "b", "c", "d", "e", "f", "g", "h", "i", "j", "k", "l", "m",
      "n", "o", "p", "q", "r", "s", "t", "u", "v", "w", "x", "y", "z">>
lower(s) ==
    [i \in DOMAIN s |->
        IF \E k \in DOMAIN UpperCase : UpperCase[k] = s[i]
        THEN LowerCase[CHOOSE k \in DOMAIN UpperCase : UpperCase[k] = s[i]]
        ELSE s[i]]

\* self.chapters as parse_main_tex leaves it, for a book of the chapters 01_A and 02_B
book_chapters ==
    << [number |-> 1, directory |-> D_01_A],
       [number |-> 2, directory |-> D_02_B] >>

\* the numbers of the chapters whose directory holds the part
RECURSIVE matches_from(_, _)
matches_from(part, k) ==
    IF k > Len(book_chapters) THEN <<>>
    ELSE (IF Contains(lower(book_chapters[k].directory), lower(part))
             /\ book_chapters[k].number # 0
          THEN <<book_chapters[k].number>> ELSE <<>>)
         \o matches_from(part, k + 1)

\* what one iteration of the loop adds to selected for the part as split off
part_numbers(raw) ==
    LET part == Strip(raw)
        pieces == split(part, "-")
    IN IF Contains(part, <<"-">>) /\ part[1] \in Digits
       THEN IF Len(pieces) # 2 \/ int_raises(pieces[1]) \/ int_raises(pieces[2])
            THEN <<>>
            ELSE range_list(int(pieces[1]), int(pieces[2]))
       ELSE IF isdigit(part) THEN <<int(part)>>
       ELSE matches_from(part, 1)

\* set(q)
Elements(q) == {q[i] : i \in DOMAIN q}

\* the largest of q[i..j], i <= j
RECURSIVE SeqMax(_, _, _)
SeqMax(q, i, j) ==
    IF i = j THEN q[i]
    ELSE LET mid == (i + j) \div 2
         IN Max(SeqMax(q, i, mid), SeqMax(q, mid + 1, j))

\* sorted(S) for a set S of numbers of lo..hi
RECURSIVE SortedIn(_, _, _)
SortedIn(S, lo, hi) ==
    IF S = {} THEN <<>>
    ELSE IF lo = hi THEN <<lo>>
    ELSE LET mid == (lo + hi) \div 2
         IN SortedIn({x \in S : x <= mid}, lo, mid) \o SortedIn({x \in S : x > mid}, mid + 1, hi)

\* what parse_chapter_spec returns for the numbers selected
result_as_selected(sel) == sel
result(sel) == IF sel = <<>> THEN <<>> ELSE SortedIn(Elements(sel), 0, SeqMax(sel, 1, Len(sel)))

\* lines 98-101: selected is emptied and the specification split
SubsetSplit ==
    /\ spc = "start"
    /\ selected' = <<>>
    /\ parts' = split(chapter_spec, ",")
    /\ spc' = "loop"
    /\ UNCHANGED <<chapter_spec, chapter_numbers>>
    /\ UNCHANGED notSubset

\* lines 103-128: one iteration of the loop over the parts
SubsetPart ==
    /\ spc = "loop"
    /\ parts # <<>>
    /\ selected' = selected \o part_numbers(Head(parts))
    /\ parts' = Tail(parts)
    /\ UNCHANGED <<chapter_spec, chapter_numbers, spc>>
    /\ UNCHANGED notSubset

\* line 131: duplicates are removed and the numbers sorted
SubsetReturn ==
    /\ spc = "loop"
    /\ parts = <<>>
    /\ chapter_numbers' = result(selected)
    /\ spc' = "done"
    /\ UNCHANGED <<chapter_spec, parts, selected>>
    /\ UNCHANGED notSubset

\* the characters of the specifications and the specifications
SpecChars == {"0", "1", "2", "-", ",", " ", "a"}
RECURSIVE SpecsUpTo(_)
SpecsUpTo(n) ==
    IF n = 0 THEN {<<>>}
    ELSE LET shorter == SpecsUpTo(n - 1)
         IN shorter \cup {Append(t, c) : t \in shorter, c \in SpecChars}

InitSubset ==
    /\ InitWith(StartTree, MainTex)
    /\ pc = "off"
    /\ FlattenIdle
    /\ TableIdle
    /\ ReadersIdle
    /\ chapter_spec \in SpecsUpTo(MaxSpecLen)
    /\ parts = <<>>
    /\ selected = <<>>
    /\ chapter_numbers = <<>>
    /\ spc = "start"

NextSubset ==
    \/ SubsetSplit
    \/ SubsetPart
    \/ SubsetReturn

SpecSubset == InitSubset /\ [][NextSubset]_vars

\* a part that is a decimal number, or a range a-b of decimal numbers
IsRange(p) ==
    /\ Len(split(p, "-")) = 2
    /\ isdigit(split(p, "-")[1])
    /\ isdigit(split(p, "-")[2])
ValidPart(p) == isdigit(p) \/ IsRange(p)

\* the numbers a valid part stands for
NumbersOf(p) ==
    IF isdigit(p) THEN {ParseInt(p)}
    ELSE ParseInt(split(p, "-")[1])..ParseInt(split(p, "-")[2])

\* the parts of the specification given, white space around them dropped
GivenParts == [i \in DOMAIN split(chapter_spec, ",") |-> Strip(split(chapter_spec, ",")[i])]

\* C18: for a specification of numbers and ranges only, the list returned is
\* strictly increasing and holds exactly the numbers that some part stands for
C18_SortedUnionOfParts ==
    (spc = "done" /\ \A i \in DOMAIN GivenParts : ValidPart(GivenParts[i])) =>
        /\ \A i \in 1..(Len(chapter_numbers) - 1) : chapter_numbers[i] < chapter_numbers[i + 1]
        /\ Elements(chapter_numbers) =
              UNION {NumbersOf(GivenParts[i]) : i \in DOMAIN GivenParts}

\* C18 witness: a number given after and inside a range ("0-2,1" or alike):
\* selected holds it twice and out of order, the list returned once, in order
C18_Witness ==
    /\ spc = "done"
    /\ Len(GivenParts) = 2
    /\ IsRange(GivenParts[1])
    /\ isdigit(GivenParts[2])
    /\ Len(selected) = 4
    /\ chapter_numbers = <<0, 1, 2>>

\* ------------------------------------------------------------------ page structure reporter
\* "unknown", "title_page": the section before any data and of a contents-table page
T_unknown == <<"u", "n", "k", "n", "o", "w", "n">>
T_title_page == <<"t", "i", "t", "l", "e", "_", "p", "a", "g", "e">>
\* "title", "main": sections the log names
T_title == <<"t", "i", "t", "l", "e">>
T_main == <<"m", "a", "i", "n">>

\* the page count used when the PDF gives none
FallbackPages == 600

\* max(d.keys()) if d else 0
max_page(d) == IF DOMAIN d = {} THEN 0 ELSE CHOOSE p \in DOMAIN d : \A q \in DOMAIN d : q <= p

\* lines 205-219
pages_total(count, log_d, aux_d, toc_d) ==
    IF count # 0 THEN count
    ELSE Max(Max(max_page(log_d), max_page(aux_d)), Max(max_page(toc_d), FallbackPages))

\* the branch of the loop taken for a page, given which sources have an entry
pick_source_log_first(in_toc, in_log, in_aux) ==
    IF in_log THEN "log" ELSE IF in_toc THEN "toc" ELSE IF in_aux THEN "aux" ELSE "none"
pick_source(in_toc, in_log, in_aux) ==
    IF in_toc THEN "toc" ELSE IF in_log THEN "log" ELSE IF in_aux THEN "aux" ELSE "none"

\* lines 238-275: the tracking variables after the page's branch.  The
\* branch's actual_chapter, actual_chapter_name and actual_section are the
\* fields actual_* of the result
after_page(t, page_num) ==
    LET src == pick_source(page_num \in DOMAIN toc_data, page_num \in DOMAIN log_data,
                           page_num \in DOMAIN aux_data)
        carried == [t EXCEPT !.actual_chapter = t.current_chapter,
                             !.actual_chapter_name = t.current_chapter_name,
                             !.actual_section = t.current_section]
    IN CASE src = "toc" ->
              LET e == toc_data[page_num]
                  changed == e.chapter # t.current_chapter
              IN [actual_chapter |-> e.chapter,
                  actual_chapter_name |-> e.title,
                  actual_section |-> T_title_page,
                  current_chapter |-> IF changed THEN e.chapter ELSE t.current_chapter,
                  current_chapter_name |->
                      IF changed THEN e.title ELSE t.current_chapter_name,
                  chapter_start_page |-> IF changed THEN page_num ELSE t.chapter_start_page,
                  section_start_page |-> page_num,
                  current_section |-> T_title_page]
         [] src = "log" ->
              LET e == log_data[page_num]
                  changed == e.chapter # t.current_chapter
                  moved == e.section # t.current_section
              IN [actual_chapter |-> e.chapter,
                  actual_chapter_name |-> e.chapter_name,
                  actual_section |-> e.section,
                  current_chapter |-> IF changed THEN e.chapter ELSE t.current_chapter,
                  current_chapter_name |->
                      IF changed THEN e.chapter_name ELSE t.current_chapter_name,
                  chapter_start_page |-> IF changed THEN page_num ELSE t.chapter_start_page,
                  section_start_page |-> IF moved THEN page_num ELSE t.section_start_page,
                  current_section |-> IF moved THEN e.section ELSE t.current_section]
         [] src = "aux" /\ aux_data[page_num].type = "chapter_start" ->
              LET e == aux_data[page_num]
              IN [carried EXCEPT !.actual_chapter = e.chapter,
                                 !.actual_chapter_name = e.label,
                                 !.current_chapter = e.chapter,
                                 !.current_chapter_name = e.label,
                                 !.chapter_start_page = page_num]
         [] OTHER -> carried

\* lines 277-294: the row of the page
row_of(t, page_num) ==
    [page |-> page_num,
     chapter |-> IF t.actual_chapter > 0 THEN t.actual_chapter ELSE t.current_chapter,
     chapter_name |-> IF t.actual_chapter_name # <<>> THEN t.actual_chapter_name
                      ELSE t.current_chapter_name,
     section |-> t.actual_section,
     page_in_chapter |-> page_num - t.chapter_start_page + 1,
     page_in_section |-> page_num - t.section_start_page + 1,
     has_warning |-> FALSE,
     warning_type |-> <<>>]

\* lines 205-229: the page count is settled and the tracking variables set
TableStart ==
    /\ tpc = "start"
    /\ total_pages' = pages_total(pdf_pages, log_data, aux_data, toc_data)
    /\ page_table' = <<>>
    /\ track' = [actual_chapter |-> 0, actual_chapter_name |-> <<>>, actual_section |-> T_unknown,
                 current_chapter |-> 0, current_chapter_name |-> <<>>,
                 current_section |-> T_unknown,
                 chapter_start_page |-> 1, section_start_page |-> 1]
    /\ tpc' = "loop"
    /\ UNCHANGED <<toc_data, log_data, aux_data, pdf_pages>>
    /\ UNCHANGED notTable

\* lines 231-294: one iteration of the loop over the pages
TablePage ==
    /\ tpc = "loop"
    /\ Len(page_table) < total_pages
    /\ LET page_num == Len(page_table) + 1
           t == after_page(track, page_num)
       IN /\ track' = t
          /\ page_table' = Append(page_table, row_of(t, page_num))
    /\ UNCHANGED <<toc_data, log_data, aux_data, pdf_pages, total_pages, tpc>>
    /\ UNCHANGED notTable

\* lines 296-323: the table is saved
TableSave_early ==
    /\ tpc = "loop"
    /\ Len(page_table) <= total_pages
    /\ tpc' = "saved"
    /\ UNCHANGED <<toc_data, log_data, aux_data, pdf_pages, total_pages, track, page_table>>
    /\ UNCHANGED notTable
TableSave ==
    /\ tpc = "loop"
    /\ Len(page_table) = total_pages
    /\ tpc' = "saved"
    /\ UNCHANGED <<toc_data, log_data, aux_data, pdf_pages, total_pages, track, page_table>>
    /\ UNCHANGED notTable

\* --- the inputs
\* the chapter numbers of the sources' entries; the contents table may also number a chapter 0
PageChapters == {1, 2}
TocEntries == {[chapter |-> c, title |-> <<"T">>] : c \in PageChapters \cup {0}}
LogEntries == {[chapter |-> c, chapter_name |-> <<"L">>, section |-> sec] :
                  c \in PageChapters, sec \in {T_title, T_main}}
\* an entry of the cross-reference data is a chapter's label or other labels only
AuxEntries == {[type |-> "chapter_start", chapter |-> c, label |-> <<"x">>] : c \in PageChapters}
              \cup {[type |-> "", chapter |-> 0, label |-> <<>>]}

\* the dictionaries with entries from E for some of the pages 1..n
PageData(n, E) == UNION {[S -> E] : S \in SUBSET (1..n)}

InitTable ==
    /\ InitWith(StartTree, MainTex)
    /\ pc = "off"
    /\ FlattenIdle
    /\ SubsetIdle
    /\ ReadersIdle
    /\ pdf_pages \in 1..MaxPages
    /\ toc_data \in PageData(pdf_pages, TocEntries)
    /\ log_data \in PageData(pdf_pages, LogEntries)
    /\ aux_data \in PageData(pdf_pages, AuxEntries)
    /\ total_pages = 0
    /\ track = <<>>
    /\ page_table = <<>>
    /\ tpc = "start"

NextTable ==
    \/ TableStart
    \/ TablePage
    \/ TableSave

SpecTable == InitTable /\ [][NextTable]_vars

\* the sources that have an entry for page p
SourcesOf(p) ==
    {src \in {"toc", "log", "aux"} :
        p \in DOMAIN (CASE src = "toc" -> toc_data [] src = "log" -> log_data
                        [] OTHER -> aux_data)}

\* C19: on a page with entries from more than one source the row's chapter is
\* the contents table's if it has an entry, else the log's; the
\* cross-reference entry decides only where neither has one
C19_SourcePrecedence ==
    \A p \in DOMAIN page_table :
        Cardinality(SourcesOf(p)) > 1 =>
            page_table[p].chapter =
                (IF "toc" \in SourcesOf(p) THEN toc_data[p].chapter
                 ELSE IF "log" \in SourcesOf(p) THEN log_data[p].chapter
                 ELSE aux_data[p].chapter)

\* C19 witness: on one page all three sources have entries, the log and the
\* contents table disagree and the row has the contents table's chapter; on
\* another the log and the cross-reference data disagree and the row has the
\* log's
C19_Witness ==
    /\ tpc = "saved"
    /\ \E p \in DOMAIN page_table :
          /\ SourcesOf(p) = {"toc", "log", "aux"}
          /\ toc_data[p].chapter # log_data[p].chapter
          /\ page_table[p].chapter = toc_data[p].chapter
    /\ \E p \in DOMAIN page_table :
          /\ SourcesOf(p) = {"log", "aux"}
          /\ aux_data[p].type = "chapter_start"
          /\ aux_data[p].chapter # log_data[p].chapter
          /\ page_table[p].chapter = log_data[p].chapter

\* C20 as claimed: page_in_chapter is 1 exactly on page 1 and on a page whose
\* chapter differs from the previous row's, and is the previous row's value
\* plus 1 on every other page; likewise page_in_section with the section
C20_CountersResetOnChange ==
    \A p \in DOMAIN page_table :
        LET r == page_table[p]
        IN IF p = 1 THEN r.page_in_chapter = 1 /\ r.page_in_section = 1
           ELSE LET q == page_table[p - 1]
                IN /\ r.page_in_chapter =
                         (IF r.chapter # q.chapter THEN 1 ELSE q.page_in_chapter + 1)
                   /\ r.page_in_section =
                         (IF r.section # q.section THEN 1 ELSE q.page_in_section + 1)

\* ------------------------------------------------------------------ page structure reporter: the estimated page count
\* the pages on which the sources may have an entry when the PDF gives no
\* count: a page below the fallback count and the page after it
EstimatePages == {MaxPages, FallbackPages + 1}

\* each source has its entry of chapter 1 on some of these pages
InitEstimate ==
    /\ InitWith(StartTree, MainTex)
    /\ pc = "off"
    /\ FlattenIdle
    /\ SubsetIdle
    /\ ReadersIdle
    /\ pdf_pages = 0
    /\ \E S \in SUBSET EstimatePages :
          toc_data = [p \in S |-> [chapter |-> 1, title |-> <<"T">>]]
    /\ \E S \in SUBSET EstimatePages :
          log_data = [p \in S |-> [chapter |-> 1, chapter_name |-> <<"L">>, section |-> T_main]]
    /\ \E S \in SUBSET EstimatePages :
          aux_data = [p \in S |-> [type |-> "chapter_start", chapter |-> 1, label |-> <<"x">>]]
    /\ total_pages = 0
    /\ track = <<>>
    /\ page_table = <<>>
    /\ tpc = "start"

SpecEstimate == InitEstimate /\ [][NextTable]_vars

\* the pages for which some source has an entry
ObservedPages == DOMAIN toc_data \cup DOMAIN log_data \cup DOMAIN aux_data

\* C21 as claimed: without a page count from the PDF the total is the largest
\* page number of the sources if any source has an entry, and the fallback
\* count only if none has
C21_EstimateIsSourceMaximum ==
    (tpc # "start" /\ pdf_pages = 0) =>
        total_pages =
            (IF ObservedPages = {} THEN FallbackPages
             ELSE CHOOSE p \in ObservedPages : \A q \in ObservedPages : q <= p)

\* ------------------------------------------------------------------ page structure reporter: the rows
\* C22: the rows written so far are those of the pages 1, 2, ... in this
\* order, never more than the total page count, and the saved table has
\* exactly one row for each page from 1 to the total page count
C22_OneRowPerPage ==
    /\ \A i \in DOMAIN page_table : page_table[i].page = i
    /\ tpc # "start" => Len(page_table) <= total_pages
    /\ tpc = "saved" => Len(page_table) = total_pages

\* C22 witness: a table of several pages is saved for sources that are all
\* empty
C22_Witness ==
    /\ tpc = "saved"
    /\ ObservedPages = {}
    /\ total_pages = MaxPages
    /\ Len(page_table) = MaxPages
    /\ page_table[MaxPages].page = MaxPages

\* ------------------------------------------------------------------ monitor_log_file: one line, handled alone
\* [A-Za-z]
Letters == Elements(UpperCase) \cup Elements(LowerCase)

T_show == <<"s", "h", "o", "w">>

\* re.match(r'^\d+show[A-Za-z]+$', line): digits to position k, the word
\* "show", letters to the end; $ also matches before a last newline
mystery_match_any_word(line) ==
    \E k \in 1..Len(line) :
        /\ \A i \in 1..k : line[i] \in Digits
        /\ k < Len(line)
        /\ \A i \in (k + 1)..Len(line) : line[i] \in Letters \cup Digits \cup {"_"}
mystery_match(line) ==
    \E k \in 1..Len(line) :
        /\ \A i \in 1..k : line[i] \in Digits
        /\ MatchAt(line, T_show, k + 1)
        /\ \E e \in (k + 5)..Len(line) :
              /\ \A i \in (k + 5)..e : line[i] \in Letters
              /\ e = Len(line) \/ (e = Len(line) - 1 /\ line[Len(line)] = NL)

T_error == <<"e", "r", "r", "o", "r">>
T_emergency_stop == <<"e", "m", "e", "r", "g", "e", "n", "c", "y", " ", "s", "t", "o", "p">>
T_bang == <<"!", " ">>
T_warning == <<"w", "a", "r", "n", "i", "n", "g">>
T_code_tex == <<".", "c", "o", "d", "e", ".", "t", "e", "x">>
T_sty == <<".", "s", "t", "y">>
T_errorbars_cod == <<"e", "r", "r", "o", "r", "b", "a", "r", "s", ".", "c", "o", "d">>

\* any(err in line.lower() for err in ['error', 'emergency stop', '! '])
error_hit(line) ==
    \/ Contains(lower(line), T_error)
    \/ Contains(lower(line), T_emergency_stop)
    \/ Contains(lower(line), T_bang)

\* the lines that lines 181-185 take for false positives
false_positive_case_sensitive(line) ==
    \/ Contains(line, T_warning)
    \/ StartsWith(Strip(line), <<"(">>)
    \/ Contains(line, T_code_tex)
    \/ Contains(line, T_sty)
    \/ Contains(line, T_errorbars_cod)
false_positive(line) ==
    \/ Contains(lower(line), T_warning)
    \/ StartsWith(Strip(line), <<"(">>)
    \/ Contains(line, T_code_tex)
    \/ Contains(line, T_sty)
    \/ Contains(line, T_errorbars_cod)

\* lines 154-187: the body of `for line in new_lines:` for one line, with no
\* other task running
LineHandle ==
    /\ lpc = "line"
    /\ LET line == Strip(raw_line)
           num == extract_chapter_info(line)
       IN IF line = <<>>
          THEN UNCHANGED <<mystery_strings, error_lines, selfVars, marker_seen>>
          ELSE /\ mystery_strings' =
                     IF mystery_match(line) THEN Append(mystery_strings, line)
                     ELSE mystery_strings
               /\ current_chapter' =
                     IF num # 0 THEN chapter_update(current_chapter, num)
                     ELSE current_chapter
               /\ CheckCompletion(line)
               /\ error_lines' =
                     IF error_hit(line) /\ ~false_positive(line)
                     THEN Append(error_lines, line) ELSE error_lines
               /\ UNCHANGED monitoring
    /\ lpc' = "done"
    /\ UNCHANGED <<raw_line, extractorVars, logVars, flattenVars, subsetVars, tableVars>>
    /\ UNCHANGED <<fs, pc, cleaned, envVars, mainVars, taskVars, inputVars, judged,
                   launched_at>>

\* --- the inputs
\* lines put together from a margin, a number, a word beginning and a word
\* end, with or without blanks between them
NumberedLines ==
    {pre \o num \o gap1 \o stem \o gap2 \o word \o post :
        pre \in {<<>>, <<" ">>}, num \in {<<>>, <<"7">>, <<"4", "2">>},
        gap1 \in {<<>>, <<" ">>}, stem \in {<<>>, <<"s", "h", "o", "w">>, <<"s", "h", "o", "w", "s">>, <<"S", "h", "o", "w">>, <<"h", "i", "d", "e">>},
        gap2 \in {<<>>, <<" ">>}, word \in {<<>>, <<"T", "i", "t", "l", "e">>, <<"T", "1">>, <<"a", "_", "b">>},
        post \in {<<>>, <<NL>>}}

\* lines of a file name, with or without an open parenthesis before it, an
\* error-looking text and a warning text
FileLines ==
    {lead \o name \o ext \o err \o warn \o <<NL>> :
        lead \in {<<>>, <<"(">>, <<" ", "(">>, <<"x", " ", "(">>},
        name \in {<<"0", "_", "s", "o", "m", "e", "f", "i", "l", "e">>, <<"x">>},
        ext \in {<<>>, <<".", "s", "t", "y">>, <<".", "c", "o", "d", "e", ".", "t", "e", "x">>, <<"e", "r", "r", "o", "r", "b", "a", "r", "s", ".", "c", "o", "d">>, <<".", "S", "T", "Y">>},
        err \in {<<>>, <<" ", "e", "r", "r", "o", "r", ":">>, <<" ", "F", "a", "t", "a", "l", " ", "E", "r", "r", "o", "r">>, <<" ", "!", " ", "U", "n", "d", "e", "f", "i", "n", "e", "d">>, <<" ", "E", "m", "e", "r", "g", "e", "n", "c", "y", " ", "s", "t", "o", "p">>},
        warn \in {<<>>, <<" ", "w", "a", "r", "n", "i", "n", "g">>, <<" ", "L", "a", "T", "e", "X", " ", "W", "a", "r", "n", "i", "n", "g">>}}

\* the lines the compiler of the monitor's specification prints
ProgressLines == {l \o <<NL>> : l \in CompilerLines}

InitLine ==
    /\ InitWith(StartTree, MainTex)
    /\ pc = "off"
    /\ FlattenIdle
    /\ SubsetIdle
    /\ TableIdle
    /\ ExtractorIdle
    /\ LogIdle
    /\ raw_line \in NumberedLines \cup FileLines \cup ProgressLines
    /\ mystery_strings = <<>>
    /\ error_lines = <<>>
    /\ lpc = "line"

NextLineAlone == LineHandle

SpecLine == InitLine /\ [][NextLineAlone]_vars

\* --- claims on the handling of a line
\* s is one or more decimal digits
AllDigits(s) == s # <<>> /\ \A i \in DOMAIN s : s[i] \in Digits
\* s is one or more letters
AllLetters(s) == s # <<>> /\ \A i \in DOMAIN s : s[i] \in Letters
\* s is identifier-like: letters, digits and underscores, not beginning with a digit
IdentifierLike(s) ==
    /\ s # <<>>
    /\ s[1] \notin Digits
    /\ \A i \in DOMAIN s : s[i] \in Letters \cup Digits \cup {"_"}

\* the line was flagged as a curiosity
Flagged == mystery_strings # <<>>

\* C23 as claimed: the line is flagged exactly when, stripped, it is a number
\* immediately followed by identifier-like text
C23_FlaggedIffNumberThenIdentifier ==
    lpc = "done" =>
        (Flagged <=>
            \E k \in 1..Len(Strip(raw_line)) :
                /\ AllDigits(SubSeq(Strip(raw_line), 1, k))
                /\ IdentifierLike(Slice(Strip(raw_line), k + 1, Len(Strip(raw_line)))))

\* C23: the line is flagged exactly when, stripped, it is a number, then the
\* word "show", then one or more letters, and what is flagged is the stripped
\* line
C23_FlaggedIffNumberShowLetters ==
    lpc = "done" =>
        LET line == Strip(raw_line)
        IN /\ Flagged <=>
                \E k \in 1..Len(line) :
                    /\ AllDigits(SubSeq(line, 1, k))
                    /\ MatchAt(line, T_show, k + 1)
                    /\ AllLetters(Slice(line, k + 5, Len(line)))
           /\ Flagged => mystery_strings = <<line>>

\* C23 witness: the line "7showTitle" has been flagged
C23_Witness ==
    /\ lpc = "done"
    /\ Strip(raw_line) = <<"7", "s", "h", "o", "w", "T", "i", "t", "l", "e">>
    /\ mystery_strings = <<<<"7", "s", "h", "o", "w", "T", "i", "t", "l", "e">>>>

\* the line was reported as an error line
Reported == error_lines # <<>>

\* C24: a line that contains "warning" in any case, begins with an open
\* parenthesis or mentions .sty, .code.tex or errorbars.cod is not reported
\* as an error line, whatever else it contains
C24_BenignLinesNotReported ==
    lpc = "done" =>
        LET line == Strip(raw_line)
        IN (\/ Contains(lower(line), T_warning)
            \/ (line # <<>> /\ line[1] = "(")
            \/ \E name \in {T_sty, T_code_tex, T_errorbars_cod} : Contains(line, name))
           => ~Reported

\* "(0_somefile.sty Fatal Error"
T_fatal_in_sty ==
    <<"(", "0", "_", "s", "o", "m", "e", "f", "i", "l", "e", ".", "s", "t", "y",
      " ", "F", "a", "t", "a", "l", " ", "E", "r", "r", "o", "r">>

\* C24 witness: a line containing "(0_somefile.sty" and an error-looking
\* text, and no warning text, has been handled and not reported
C24_Witness ==
    /\ lpc = "done"
    /\ Contains(raw_line, T_fatal_in_sty)
    /\ ~Contains(lower(raw_line), T_warning)
    /\ error_hit(Strip(raw_line))
    /\ ~Reported

\* ------------------------------------------------------------------ the monitor: the polling tasks and the passes
\* C25 as claimed: when the pass's log holds the completion marker line, a
\* polling task has handled a marker line by the time compile_pass judges the
\* pass
C25_MarkerNeverMissed ==
    pc = "after_pass" =>
        (Contains(log[pass_num], T_marker \o <<NL>>) => judged.marker)

\* C26 as claimed: between the reset at the beginning of pass 2 and its
\* judgement, handling a line of pass 1's log neither sets the PDF-observed
\* flag nor raises the current chapter
C26_OnlyOwnLogLines ==
    [][(pass_num = 2 /\ pc \in {"launch", "wait", "judge"} /\ new_lines'[1] # new_lines[1]
            /\ mpc[1] \in {"line", "store"})
        => (pdf_generated' = pdf_generated /\ current_chapter' <= current_chapter)]_vars

\* ------------------------------------------------------------------ subset generator: parse_main_tex
T_end_document == <<"\\">> \o <<"e", "n", "d", "{", "d", "o", "c", "u", "m", "e", "n", "t", "}">>
T_inputstory == <<"\\">> \o <<"i", "n", "p", "u", "t", "s", "t", "o", "r", "y">>

\* re.search(r'\\chapterwithsummaryfromfile\[([^\]]+)\]\{([^\}]+)\}', line)
\* tried at position i: the bracketed label is part of the expression
LabelledMatchAt(line, i) ==
    IF ~MatchAt(line, T_directive, i)
    THEN [found |-> FALSE, label |-> <<>>, directory |-> <<>>]
    ELSE LET k == i + Len(T_directive)
             b == BraceGroupEnd(line, k, "[", "]")
             e == IF b = 0 THEN 0 ELSE BraceGroupEnd(line, b + 1, "{", "}")
         IN IF e # 0
            THEN [found |-> TRUE, label |-> Slice(line, k + 1, b - 1),
                  directory |-> Slice(line, b + 2, e - 1)]
            ELSE [found |-> FALSE, label |-> <<>>, directory |-> <<>>]

\* re.search of that expression in line: its leftmost match
extractor_match(line) ==
    LET at == {i \in 1..Len(line) : LabelledMatchAt(line, i).found}
    IN IF at = {} THEN [found |-> FALSE, label |-> <<>>, directory |-> <<>>]
       ELSE LabelledMatchAt(line, CHOOSE i \in at : \A j \in at : i <= j)

\* re.match(r'(\d+)_', directory): the chapter number, 0 for None
directory_number(directory) ==
    IF directory # <<>> /\ directory[1] \in Digits
          /\ DigitRunEnd(directory, 1) < Len(directory)
          /\ directory[DigitRunEnd(directory, 1) + 1] = "_"
    THEN ParseInt(SubSeq(directory, 1, DigitRunEnd(directory, 1)))
    ELSE 0

\* re.search(r'%(.+)$', next_line).group(1).strip(), <<>> when there is no match
comment_of(next_line) ==
    LET body == IF next_line # <<>> /\ next_line[Len(next_line)] = NL
                THEN SubSeq(next_line, 1, Len(next_line) - 1) ELSE next_line
        p == FirstAt(body, "%", 1)
    IN IF p # 0 /\ p < Len(body) THEN Strip(Slice(body, p + 1, Len(body))) ELSE <<>>

\* a line that the loops of parse_main_tex take for a chapter directive
is_directive_line(line) ==
    Contains(line, T_directive) /\ ~StartsWith(Strip(line), <<"%">>)

\* lines 30-37: chapter_start_idx and chapter_end_idx, counted from 0, -1 for None
chapter_bounds(lines) ==
    LET ends == {i \in 0..(Len(lines) - 1) : Contains(lines[i + 1], T_end_document)}
        last == IF ends = {} THEN Len(lines) - 1
                ELSE CHOOSE i \in ends : \A j \in ends : i <= j
        starts == {i \in 0..last : is_directive_line(lines[i + 1])}
    IN [chapter_start_idx |-> IF starts = {} THEN -1
                              ELSE CHOOSE i \in starts : \A j \in starts : i <= j,
        chapter_end_idx |-> IF ends = {} THEN -1 ELSE last]

\* lines 44-80: the loop `while i < chapter_end_idx`, from line i on
RECURSIVE extract_loop(_, _, _, _)
extract_loop(lines, i, stop, chs) ==
    IF i >= stop THEN chs
    ELSE LET line == lines[i + 1]
             m == extractor_match(line)
             follows == i + 1 < stop /\ Contains(lines[i + 2], T_inputstory)
             ch == [number |-> directory_number(m.directory),
                    label |-> m.label,
                    directory |-> m.directory,
                    chapterwithsummary_line |-> line,
                    inputstory_line |-> IF follows THEN lines[i + 2] ELSE <<>>,
                    comment |-> IF follows THEN comment_of(lines[i + 2]) ELSE <<>>,
                    line_index |-> i]
         IN extract_loop(lines, i + 1, stop,
                         IF is_directive_line(line) /\ m.found THEN Append(chs, ch) ELSE chs)

\* parse_main_tex on the text of the root document: `i < chapter_end_idx`
\* raises TypeError when either index is None
parse_main_tex(text) ==
    LET lines == ReadLines(text)
        b == chapter_bounds(lines)
    IN IF b.chapter_start_idx = -1 \/ b.chapter_end_idx = -1
       THEN [raised |-> TRUE, chapters |-> <<>>]
       ELSE [raised |-> FALSE,
             chapters |-> extract_loop(lines, b.chapter_start_idx, b.chapter_end_idx, <<>>)]

\* the subset generator reads the root document
ExtractorParse ==
    /\ xpc = "start"
    /\ extractor_chapters' = parse_main_tex(main_tex).chapters
    /\ xpc' = IF parse_main_tex(main_tex).raised THEN "raised" ELSE "done"
    /\ UNCHANGED <<lineVars, logVars, compileVars, flattenVars, subsetVars, tableVars>>

\* --- the inputs
L_end_document == T_end_document
L_inputstory == T_inputstory \o <<"{", "0", "1", "_", "A", "}", " ", "%", " ", "d", "r", "a", "f", "t">>
ParseShapes == {L_preamble, L_dir_a, L_dir_b, L_commented, L_inputstory, L_end_document}

\* the sequences of up to n lines from these shapes
RECURSIVE ParseLinesUpTo(_)
ParseLinesUpTo(n) ==
    IF n = 0 THEN {<<>>}
    ELSE LET shorter == ParseLinesUpTo(n - 1)
         IN shorter \cup {Append(ls, l) : ls \in shorter, l \in ParseShapes}

\* the root documents both tools are given: every line ends with a newline
ParseDocuments ==
    {JoinLines(ls) \o (IF ls = <<>> THEN <<>> ELSE <<NL>>) :
        ls \in ParseLinesUpTo(MaxRootLines + 1)}

InitParse ==
    /\ InitWith(StartTree, MainTex)
    /\ pc = "off"
    /\ SubsetIdle
    /\ TableIdle
    /\ LineIdle
    /\ LogIdle
    /\ main_tex \in ParseDocuments
    /\ frag = [d \in ChapterDirs |-> Complete(d)]
    /\ root_files = [n \in {T_intro, T_preamble} |-> TextFile(TextOf(<<>>, "x"))]
    /\ header_lines = <<>>
    /\ chapters = <<>>
    /\ output = <<>>
    /\ todo = <<>>
    /\ written = <<>>
    /\ fpc = "start"
    /\ extractor_chapters = <<>>
    /\ xpc = "start"

NextParse ==
    \/ FlattenHeader
    \/ ExtractorParse

SpecParse == InitParse /\ [][NextParse]_vars

\* the directories of a chapter list, in its order
DirectoriesOf(chs) == [i \in DOMAIN chs |-> chs[i].directory]

\* C27 as claimed: when both tools have read the root document, the subset
\* generator's chapter list has the directories of the flattener's, in the
\* same order
C27_SameChaptersAsFlattener ==
    (xpc = "done" /\ fpc # "start") =>
        DirectoriesOf(extractor_chapters) = DirectoriesOf(chapters)

\* ------------------------------------------------------------------ flattener: the fragments of a chapter
\* the fragments of pages 4 to 9 of a chapter
BodyNames == {"historical.tex", "main.tex", "technical.tex"} \cup {Extras[k] : k \in 1..Len(Extras)}

\* the first chapter's directory with each of these fragments there or not
BodySets ==
    {[n \in FragmentNames |->
         IF n \in BodyNames /\ n \notin present THEN Absent ELSE Complete(D_01_A)[n]] :
        present \in SUBSET BodyNames}

\* a root document of two chapters, in either order
BodyDocuments ==
    {JoinLines(<<L_preamble, L_dir_a, L_dir_b>>) \o <<NL>>,
     JoinLines(<<L_dir_b, L_dir_a>>) \o <<NL>>}

InitBody ==
    /\ InitWith(StartTree, MainTex)
    /\ pc = "off"
    /\ SubsetIdle
    /\ TableIdle
    /\ ReadersIdle
    /\ main_tex \in BodyDocuments
    /\ \E a \in BodySets : frag = [d \in ChapterDirs |-> IF d = D_01_A THEN a ELSE Complete(d)]
    /\ root_files = [n \in {T_intro, T_preamble} |-> TextFile(TextOf(<<>>, "x"))]
    /\ header_lines = <<>>
    /\ chapters = <<>>
    /\ output = <<>>
    /\ todo = <<>>
    /\ written = <<>>
    /\ fpc = "start"

SpecBody == InitBody /\ [][NextFlatten]_vars

\* the order claimed for the fragments of pages 4 to 8
BodyOrder ==
    <<"historical.tex", "main.tex", "phenomenon_extra.tex", "joke.tex", "exercises.tex",
      "cartoon.tex", "imagefigure.tex">>

\* where the BEGIN INLINE line of fragment n of directory d stands between
\* the positions lo and hi of the text
MarkersIn(text, d, n, lo, hi) ==
    {i \in lo..hi : MatchAt(text, BeginMarker(FragmentPath(d, n)), i)}

\* C28: in every written chapter, between the heading of pages 4 to 8 and the
\* heading of page 9, the historical and the main fragment and every extra
\* whose file exists stand once each, in the claimed order, and no extra
\* whose file does not exist stands anywhere; the technical fragment stands
\* after the heading of page 9 and before the next chapter
C28_FragmentOrderInChapter ==
    fpc = "done" =>
        \A k \in DOMAIN chapters :
            LET d == chapters[k].directory
                lo == NthAt(FlatText, T_pages4to8, k)
                hi == NthAt(FlatText, T_page9, k)
                end == IF k < Len(chapters) THEN NthAt(FlatText, T_chapter_open, k + 1)
                       ELSE Len(FlatText)
                at(n) == MarkersIn(FlatText, d, n, lo, hi)
            IN /\ lo < hi
               /\ \A a \in DOMAIN BodyOrder :
                     /\ Included(d, BodyOrder[a]) <=> Cardinality(at(BodyOrder[a])) = 1
                     /\ ~Included(d, BodyOrder[a]) => at(BodyOrder[a]) = {}
                     /\ ~exists(FragmentFile(d, BodyOrder[a])) =>
                           MarkersIn(FlatText, d, BodyOrder[a], 1, Len(FlatText)) = {}
               /\ \A a, b \in DOMAIN BodyOrder :
                     (a < b /\ at(BodyOrder[a]) # {} /\ at(BodyOrder[b]) # {}) =>
                         \A i \in at(BodyOrder[a]), j \in at(BodyOrder[b]) : i < j
               /\ MarkersIn(FlatText, d, "technical.tex", lo, hi) = {}
               /\ Included(d, "technical.tex") =>
                     Cardinality(MarkersIn(FlatText, d, "technical.tex", hi, end)) = 1

\* C28 witness: a chapter written without joke.tex and exercises.tex has its
\* historical, main, phenomenon_extra, cartoon and imagefigure fragments in
\* this order before its page 9, and its technical fragment after
C28_Witness ==
    /\ fpc = "done"
    /\ Len(chapters) = 2
    /\ chapters[1].directory = D_01_A
    /\ {n \in BodyNames : ~exists(FragmentFile(D_01_A, n))} = {"joke.tex", "exercises.tex"}
    /\ LET lo == NthAt(FlatText, T_pages4to8, 1)
           hi == NthAt(FlatText, T_page9, 1)
           pos(n) == CHOOSE i \in MarkersIn(FlatText, D_01_A, n, lo, hi) : TRUE
       IN /\ \A n \in {"historical.tex", "main.tex", "phenomenon_extra.tex", "cartoon.tex",
                       "imagefigure.tex"} : MarkersIn(FlatText, D_01_A, n, lo, hi) # {}
          /\ pos("historical.tex") < pos("main.tex")
          /\ pos("main.tex") < pos("phenomenon_extra.tex")
          /\ pos("phenomenon_extra.tex") < pos("cartoon.tex")
          /\ pos("cartoon.tex") < pos("imagefigure.tex")
          /\ MarkersIn(FlatText, D_01_A, "technical.tex", hi, Len(FlatText)) # {}

\* ------------------------------------------------------------------ page structure reporter: pages without data
\* C29 as claimed: the row of a page for which no source has an entry has the
\* chapter, the chapter name and the section of the row before it and its
\* two counters plus 1; on page 1 it has chapter 0 and the section "unknown"
C29_NoDataPageContinues ==
    \A p \in DOMAIN page_table :
        SourcesOf(p) = {} =>
            LET r == page_table[p]
            IN IF p = 1 THEN r.chapter = 0 /\ r.section = T_unknown
               ELSE LET q == page_table[p - 1]
                    IN /\ r.chapter = q.chapter
                       /\ r.chapter_name = q.chapter_name
                       /\ r.section = q.section
                       /\ r.page_in_chapter = q.page_in_chapter + 1
                       /\ r.page_in_section = q.page_in_section + 1

\* ------------------------------------------------------------------ page structure reporter: analyze_log_file
\* lines of the log that a document's log is put together from
MaxLogLines == 3

\* [\w]
WordChars == Letters \cup Digits \cup {"_"}

T_dot_tex == <<".", "t", "e", "x">>

\* re.search(r'^\[(\d+)', line): the page number, -1 when there is no match
page_number_anywhere(line) ==
    LET at == {i \in 1..(Len(line) - 1) : line[i] = "[" /\ line[i + 1] \in Digits}
    IN IF at = {} THEN -1
       ELSE LET i == CHOOSE a \in at : \A b \in at : a <= b
            IN ParseInt(SubSeq(line, i + 1, DigitRunEnd(line, i + 1)))
page_number(line) ==
    IF Len(line) >= 2 /\ line[1] = "[" /\ line[2] \in Digits
    THEN ParseInt(SubSeq(line, 2, DigitRunEnd(line, 2)))
    ELSE -1

\* \(\.?/?(\d+_[^/]+/[\w]+\.tex) tried at position i of line: where the
\* group begins, where its directory ends and where the group ends; found
\* tells whether it matches
FileOpenAt(line, i) ==
    LET none == [found |-> FALSE, from |-> 0, slash |-> 0, to |-> 0]
    IN IF ~(i <= Len(line) /\ line[i] = "(") THEN none
       ELSE LET a == IF i + 1 <= Len(line) /\ line[i + 1] = "." THEN i + 2 ELSE i + 1
                g == IF a <= Len(line) /\ line[a] = "/" THEN a + 1 ELSE a
            IN IF ~(g <= Len(line) /\ line[g] \in Digits) THEN none
               ELSE LET d == DigitRunEnd(line, g)
                        s == FirstAt(line, "/", d + 2)
                    IN IF ~(d + 1 <= Len(line) /\ line[d + 1] = "_" /\ s >= d + 3) THEN none
                       ELSE LET ws == {w \in (s + 1)..Len(line) :
                                          /\ \A k \in (s + 1)..w : line[k] \in WordChars
                                          /\ MatchAt(line, T_dot_tex, w + 1)}
                            IN IF ws = {} THEN none
                               ELSE [found |-> TRUE, from |-> g, slash |-> s,
                                     to |-> (CHOOSE w \in ws : TRUE) + Len(T_dot_tex)]

\* re.search of that expression in line: its leftmost match
file_open_match(line) ==
    LET at == {i \in 1..Len(line) : FileOpenAt(line, i).found}
    IN IF at = {} THEN [found |-> FALSE, from |-> 0, slash |-> 0, to |-> 0]
       ELSE FileOpenAt(line, CHOOSE i \in at : \A j \in at : i <= j)

\* lines 124-137: the section types of the known fragment names
section_map ==
    [k \in {<<"t", "i", "t", "l", "e">>, <<"s", "u", "m", "m", "a", "r", "y">>, <<"t", "o", "p", "i", "c", "m", "a", "p">>, <<"q", "u", "o", "t", "e">>, <<"h", "i", "s", "t", "o", "r", "i", "c", "a", "l">>, <<"m", "a", "i", "n">>, <<"t", "e", "c", "h", "n", "i", "c", "a", "l">>,
            <<"e", "x", "e", "r", "c", "i", "s", "e", "s">>, <<"i", "m", "a", "g", "e", "f", "i", "g", "u", "r", "e">>, <<"j", "o", "k", "e">>, <<"c", "a", "r", "t", "o", "o", "n">>, <<"s", "i", "d", "e", "n", "o", "t", "e">>} |-> k]

\* lines 107-148: the entry made for the file the match names
content_entry(line, m) ==
    LET file_path == SubSeq(line, m.from, m.to)
        chapter_dir == SubSeq(line, m.from, m.slash - 1)
        filename == SubSeq(line, m.slash + 1, m.to - Len(T_dot_tex))
        digits == DigitRunEnd(chapter_dir, 1)
    IN [chapter |-> ParseInt(SubSeq(chapter_dir, 1, digits)),
        chapter_name |-> Slice(chapter_dir, digits + 2, Len(chapter_dir)),
        section |-> IF filename \in DOMAIN section_map THEN section_map[filename]
                    ELSE filename,
        file_path |-> file_path]

\* d with the entry e for page p, added or replaced
Put(d, p, e) == [q \in DOMAIN d \cup {p} |-> IF q = p THEN e ELSE d[q]]

\* lines 98-153: the loop over the lines from the i-th on.  current_files
\* is filled and emptied by the loop and read by nothing
RECURSIVE analyze_loop(_, _, _, _)
analyze_loop(lines, i, current_page, page_to_content) ==
    IF i > Len(lines) THEN page_to_content
    ELSE LET line == Strip(lines[i])
             page == IF page_number(line) # -1 THEN page_number(line) ELSE current_page
             m == file_open_match(line)
         IN analyze_loop(lines, i + 1, page,
                         IF m.found THEN Put(page_to_content, page, content_entry(line, m))
                         ELSE page_to_content)

\* analyze_log_file on the text of the log
analyze_log_file(text) == analyze_loop(split(text, NL), 1, 1, <<>>)

\* lines 197-199: the log is analysed
TableAnalyze ==
    /\ tpc = "analyze"
    /\ log_data' = analyze_log_file(log_text)
    /\ tpc' = "start"
    /\ UNCHANGED <<toc_data, aux_data, pdf_pages, total_pages, track, page_table>>
    /\ UNCHANGED notTable

\* --- the inputs
\* "[1"
L_page1 ==
    <<"[", "1">>
\* "[2 (./01_A/title.tex"
L_page2_title ==
    <<"[", "2", " ", "(", ".", "/", "0", "1", "_", "A">> \o
    <<"/", "t", "i", "t", "l", "e", ".", "t", "e", "x">>
\* "[2]"
L_page2 ==
    <<"[", "2", "]">>
\* "(./01_A/main.tex"
L_open_main ==
    <<"(", ".", "/", "0", "1", "_", "A", "/", "m", "a", "i", "n", ".", "t", "e", "x">>
\* " (02_B/main.tex) "
L_open_b ==
    <<" ", "(", "0", "2", "_", "B", "/", "m", "a", "i", "n", ".", "t", "e", "x", ")", " ">>
\* "(/02_B/notes.tex"
L_open_notes ==
    <<"(", "/", "0", "2", "_", "B", "/", "n", "o", "t", "e", "s", ".", "t", "e", "x">>
\* "x [2] (01_A.tex"
L_no_page ==
    <<"x", " ", "[", "2", "]", " ", "(", "0", "1", "_", "A", ".", "t", "e", "x">>
LogShapes ==
    {L_page1, L_page2_title, L_page2, L_open_main,
     L_open_b, L_open_notes, L_no_page}

RECURSIVE LogLinesUpTo(_)
LogLinesUpTo(n) ==
    IF n = 0 THEN {<<>>}
    ELSE LET shorter == LogLinesUpTo(n - 1)
         IN shorter \cup {Append(ls, l) : ls \in shorter, l \in LogShapes}

\* the logs: lines separated by newlines
LogTexts == {JoinLines(ls) : ls \in LogLinesUpTo(MaxLogLines)}

InitLog ==
    /\ InitWith(StartTree, MainTex)
    /\ pc = "off"
    /\ FlattenIdle
    /\ SubsetIdle
    /\ LineIdle
    /\ ExtractorIdle
    /\ log_text \in LogTexts
    /\ pdf_pages \in 1..MaxPages
    /\ \E S \in {{}, {1}} : toc_data = [p \in S |-> [chapter |-> 1, title |-> <<"T">>]]
    /\ log_data = <<>>
    /\ aux_data = <<>>
    /\ total_pages = 0
    /\ track = <<>>
    /\ page_table = <<>>
    /\ tpc = "analyze"

NextLog ==
    \/ TableAnalyze
    \/ NextTable

SpecLog == InitLog /\ [][NextLog]_vars

\* --- claims on the log
\* the lines of the log, stripped
LogLines == [i \in DOMAIN split(log_text, NL) |-> Strip(split(log_text, NL)[i])]

\* the line begins with "[" and a number
BeginsPage(l) == Len(l) >= 2 /\ l[1] = "[" /\ l[2] \in Digits

\* the lines that name a chapter file being opened
Inclusions == {i \in DOMAIN LogLines : file_open_match(LogLines[i]).found}

\* the page in effect at line i: the number of the last line up to i that
\* begins a page, 1 before any
PageAt(i) ==
    LET marks == {j \in 1..i : BeginsPage(LogLines[j])}
    IN IF marks = {} THEN 1
       ELSE LET j == CHOOSE a \in marks : \A b \in marks : b <= a
            IN ParseInt(SubSeq(LogLines[j], 2, DigitRunEnd(LogLines[j], 2)))

\* C30: once the log is analysed, the log data has an entry exactly for the
\* pages in effect at the lines that name a chapter file, and a page's entry is that of the last
\* such line of the page; and the row of a page with a log entry and no
\* contents-table entry has page_in_section 1 if its section differs from the
\* previous row's (or it is page 1) and the previous row's value plus 1
\* otherwise
C30_LogPagesAndSections ==
    /\ tpc = "start" =>
          /\ DOMAIN log_data = {PageAt(i) : i \in Inclusions}
          /\ \A n \in DOMAIN log_data :
                LET of == {i \in Inclusions : PageAt(i) = n}
                    i == CHOOSE a \in of : \A b \in of : b <= a
                IN log_data[n] = content_entry(LogLines[i], file_open_match(LogLines[i]))
    /\ \A p \in DOMAIN page_table :
          (p \in DOMAIN log_data /\ p \notin DOMAIN toc_data) =>
              /\ page_table[p].section = log_data[p].section
              /\ page_table[p].page_in_section =
                    (IF p = 1 THEN 1
                     ELSE IF page_table[p].section # page_table[p - 1].section THEN 1
                     ELSE page_table[p - 1].page_in_section + 1)

\* C30 witness: the log names a file of chapter 1, then begins page 2 and
\* names the main file of chapter 2; the table's row of page 2 comes from the
\* log, has the section of page 1 and page_in_section 2
C30_Witness ==
    /\ tpc = "saved"
    /\ Len(LogLines) = 3
    /\ ~BeginsPage(LogLines[1])
    /\ BeginsPage(LogLines[2])
    /\ Inclusions = {1, 3}
    /\ DOMAIN log_data = {1, 2}
    /\ toc_data = <<>>
    /\ Len(page_table) >= 2
    /\ log_data[2].chapter = 2
    /\ page_table[2].chapter = 2
    /\ page_table[2].section = page_table[1].section
    /\ page_table[2].page_in_section = 2

====
